---- MODULE Spec2Model ----
(***************************************************************************)
(* Model of the Friday edge analysis of rokauskas/London-Open:              *)
(* analyzeFridayEdge and the functions it calls (analyzeFriday,            *)
(* buildMLFeatures, predict, generateTradingSignals), all found in         *)
(* src/bin/download_year_data.sh from line 64 on; and of the helper        *)
(* functions of the Monday scripts (src/bin/analyze_monday_entries.js and  *)
(* src/unnamed/part_003), each applied to drawn arguments.                 *)
(*                                                                         *)
(* Numbers.  JavaScript numbers are modelled exactly:                      *)
(*   - prices, predictions and confidences are fixed-point integers in     *)
(*     units of 1/10000 (One = 1.0);                                       *)
(*   - quotients (percent moves, VWAP) are kept as fractions [n, d]        *)
(*     and compared by cross-multiplication;                               *)
(*   - x.toFixed(2) rounds to hundredths and is kept as the integer        *)
(*     number of hundredths the string shows.                              *)
(* A value of JavaScript that may be null is a sequence: <<>> is null,     *)
(* <<v>> is the value v.                                                   *)
(***************************************************************************)
EXTENDS Integers, Sequences, FiniteSets, TLC

VARIABLES
    pc,               \* position of analyzeFridayEdge
    numFridays,       \* fridays.length (the session dates are 1..numFridays)
    dayIdx,           \* the next element of `fridays` the for-of loop takes
    sessionHours,     \* history: per session date, the UTC hours Mongo returned
    candles,          \* analyzeFriday: the day's candles, after the in-place sort
    morningCandles,   \* analyzeFriday: the morning slice
    afternoonCandles, \* analyzeFriday: the afternoon slice
    analysis,         \* analyzeFriday: what the last call returned
    fridayData,       \* the analyses of the complete days
    features,         \* buildMLFeatures: the feature rows
    labels,           \* buildMLFeatures: the labels
    mlPredictions,    \* one prediction per feature row
    signals,          \* what generateTradingSignals returned
    fn,               \* the function or script that is running or has run
    args,             \* the arguments of a helper function applied on its own
    output            \* what `fn` returned or reported, <<>> before it has

vars == <<pc, numFridays, dayIdx, sessionHours, candles, morningCandles,
          afternoonCandles, analysis, fridayData, features, labels,
          mlPredictions, signals, fn, args, output>>

----------------------------------------------------------------------------
(* Bounds of the model. *)

MaxDays == 2
MaxCandles == 3
MaxSignalDays == 2
MaxSample == 4
MaxMondays == 2
MaxSeries == 4
MaxPeriod == 3
MaxRows == 3
MaxBatch == 2
MaxUploads == 3
MaxOpening == 3

----------------------------------------------------------------------------
(* Numbers. *)

One == 100 * 100

Abs(x) == IF x < 0 THEN -x ELSE x

Min2(a, b) == IF a < b THEN a ELSE b

SetMax(S) == CHOOSE x \in S : \A y \in S : y <= x

SetMin(S) == CHOOSE x \in S : \A y \in S : x <= y

\* The fraction n/d.  d = 0 is JavaScript's NaN or Infinity.
Frac(n, d) == [n |-> n, d |-> d]

\* a > b and a < b for fractions with positive denominators.
FracGT(a, b) == a.n * b.d > b.n * a.d

FracLT(a, b) == a.n * b.d < b.n * a.d

\* Number.prototype.toFixed(2) of a fixed-point number: the number of
\* hundredths the string shows, rounding the magnitude half up.
ToFixed2(x) ==
    LET r == (Abs(x) + 50) \div 100
    IN  IF x < 0 THEN -r ELSE r

\* toFixed(2) of a fraction with positive denominator.
FracToFixed2(q) ==
    LET r == (2 * Abs(q.n) * 100 + q.d) \div (2 * q.d)
    IN  IF q.n < 0 THEN -r ELSE r

\* toFixed(4) of a fixed-point number: the unit of the model is the fourth
\* decimal, so all the digits the model carries are kept.
ToFixed4(x) == x

\* parseFloat of a toFixed(2) string, back in fixed point.
ParseFloat2(h) == h * 100

----------------------------------------------------------------------------
(* Constants of the script. *)

MORNING_START_HOUR == 8
MORNING_END_HOUR == 10
MARKET_OPEN_HOUR == 8
MARKET_CLOSE_HOUR == 22

\* new Date(c.timestamp).getUTCHours(): timestamps are minutes since the
\* UTC midnight that starts the session date (session_date is the UTC date
\* of the timestamp, download_dax_dukascopy_5min.js line 138).
GetUTCHours(timestamp) == (timestamp \div 60) % 24

----------------------------------------------------------------------------
(* Indicators. *)

\* calculateVWAP: the running sum of typicalPrice * volume over the running
\* volume, the typical price when the running volume is 0.  The typical
\* price is (high + low + close)/3, so entry i is the fraction
\* sum(hlc * volume) / (3 * sum(volume)), or hlc/3.
RECURSIVE CumulativeTPV(_, _)
CumulativeTPV(cs, i) ==
    IF i = 0 THEN 0
    ELSE CumulativeTPV(cs, i - 1)
         + (cs[i].high + cs[i].low + cs[i].close) * cs[i].volume

CurrentVolume(cs, i) == IF i = 0 THEN 0 ELSE cs[i].volume

RECURSIVE CumulativeVolume(_, _)
CumulativeVolume(cs, i) ==
    IF i = 0 THEN 0 ELSE CumulativeVolume(cs, i - 1) + cs[i].volume

calculateVWAP(cs) ==
    [i \in 1..Len(cs) |->
        IF CumulativeVolume(cs, i) > 0
        THEN Frac(CumulativeTPV(cs, i), 3 * CumulativeVolume(cs, i))
        ELSE Frac(cs[i].high + cs[i].low + cs[i].close, 3)]

\* Array(prices.length - values.length).fill(null).concat(values): the
\* series of the technicalindicators library padded with nulls at the
\* front.  `values` is what the library returned.
PadWithNulls(length, values) ==
    [i \in 1..length |->
        IF i <= length - Len(values) THEN <<>>
        ELSE <<values[i - (length - Len(values))]>>]

\* How many values the technicalindicators library returns for an input of
\* `length` entries and a warm-up of `warmup` entries.
LibraryCount(length, warmup) == IF length > warmup THEN length - warmup ELSE 0

\* The periods analyzeFriday passes to the library.
EMA_FAST_PERIOD == 20
EMA_SLOW_PERIOD == 50
RSI_PERIOD == 14
BB_PERIOD == 20
ATR_PERIOD == 14
MACD_SLOW_PERIOD == 26
STOCH_PERIOD == 14

\* Readings the library can return past the warm-up.  The library is not
\* part of the repository: its readings are inputs of the model.  RSI
\* readings are whole RSI points in 0..100.
RsiReadings == {0, 30, 39, 40, 45, 60, 61, 70, 100}

PriceReadings == {99 * One, 101 * One}

BandReadings ==
    {[lower |-> 98 * One, middle |-> 100 * One, upper |-> 102 * One]}

MacdReadings == {[MACD |-> One, signal |-> 0 - One]}

StochReadings == {[k |-> 80 * One, d |-> 20 * One]}

\* All sequences of k elements of S.
SeqsOfLen(S, k) == [1..k -> S]

\* What the library returns for a day of `length` candles: one series per
\* indicator, each shorter than the input by the indicator's warm-up.
LibraryOutputs(length) ==
    [ema20 : SeqsOfLen(PriceReadings, LibraryCount(length, EMA_FAST_PERIOD - 1)),
     ema50 : SeqsOfLen(PriceReadings, LibraryCount(length, EMA_SLOW_PERIOD - 1)),
     rsi   : SeqsOfLen(RsiReadings, LibraryCount(length, RSI_PERIOD)),
     bb    : SeqsOfLen(BandReadings, LibraryCount(length, BB_PERIOD - 1)),
     atr   : SeqsOfLen(PriceReadings, LibraryCount(length, ATR_PERIOD)),
     macd  : SeqsOfLen(MacdReadings, LibraryCount(length, MACD_SLOW_PERIOD - 1)),
     stoch : SeqsOfLen(StochReadings, LibraryCount(length, STOCH_PERIOD - 1))]

\* calculateEMA, calculateRSI, calculateBollingerBands, calculateATR,
\* calculateMACD, calculateStochastic of the Friday script (lines 119-191):
\* the library's series, padded.  (The Monday script has an EMA and an RSI
\* of its own under the same names.)
calculateEMA_Friday(prices, values) == PadWithNulls(Len(prices), values)

calculateRSI_Friday(prices, values) == PadWithNulls(Len(prices), values)

calculateBollingerBands(prices, values) == PadWithNulls(Len(prices), values)

calculateATR(cs, values) == PadWithNulls(Len(cs), values)

calculateMACD(prices, values) == PadWithNulls(Len(prices), values)

calculateStochastic(cs, values) == PadWithNulls(Len(cs), values)

----------------------------------------------------------------------------
(* analyzeFriday. *)

\* candles.sort((a, b) => new Date(a.timestamp) - new Date(b.timestamp)):
\* ascending by timestamp, equal timestamps keeping their order.
InsertByTimestamp(sorted, c) ==
    LET before == SelectSeq(sorted, LAMBDA x : x.timestamp <= c.timestamp)
        after  == SelectSeq(sorted, LAMBDA x : x.timestamp > c.timestamp)
    IN  before \o <<c>> \o after

RECURSIVE SortByTimestamp(_)
SortByTimestamp(cs) ==
    IF cs = <<>> THEN <<>>
    ELSE InsertByTimestamp(SortByTimestamp(SubSeq(cs, 1, Len(cs) - 1)),
                           cs[Len(cs)])

\* The filters of lines 218-226, each preceded by the variants that a slip
\* in a comparison would give.
IsMorningClosedEnd(c) ==
    /\ GetUTCHours(c.timestamp) >= MORNING_START_HOUR
    /\ GetUTCHours(c.timestamp) <= MORNING_END_HOUR

IsMorning(c) ==
    /\ GetUTCHours(c.timestamp) >= MORNING_START_HOUR
    /\ GetUTCHours(c.timestamp) < MORNING_END_HOUR

IsAfternoonClosedEnd(c) ==
    /\ GetUTCHours(c.timestamp) >= MORNING_END_HOUR
    /\ GetUTCHours(c.timestamp) <= MARKET_CLOSE_HOUR

IsAfternoonOpenStart(c) ==
    /\ GetUTCHours(c.timestamp) > MORNING_END_HOUR
    /\ GetUTCHours(c.timestamp) < MARKET_CLOSE_HOUR

IsAfternoon(c) ==
    /\ GetUTCHours(c.timestamp) >= MORNING_END_HOUR
    /\ GetUTCHours(c.timestamp) < MARKET_CLOSE_HOUR

MorningSlice(cs) == SelectSeq(cs, IsMorning)

AfternoonSlice(cs) == SelectSeq(cs, IsAfternoon)

RECURSIVE SumVolume(_, _)
SumVolume(cs, i) == IF i = 0 THEN 0 ELSE SumVolume(cs, i - 1) + cs[i].volume

\* The statistics analyzeFriday takes of a non-empty run of candles: of the
\* morning (lines 233-240, 280), the afternoon (270-277, 281) and the whole
\* day (260-267, 282).
SessionStats(cs) ==
    LET open  == cs[1].open
        close == cs[Len(cs)].close
        high  == SetMax({cs[i].high : i \in 1..Len(cs)})
        low   == SetMin({cs[i].low : i \in 1..Len(cs)})
    IN  [open        |-> open,
         close       |-> close,
         high        |-> high,
         low         |-> low,
         range       |-> high - low,
         move        |-> close - open,
         movePercent |-> Frac((close - open) * 100, open),
         bullish     |-> close - open > 0,
         volume      |-> SumVolume(cs, Len(cs))]

\* candles.indexOf(x): the first position holding x.
IndexOf(cs, x) == SetMin({i \in 1..Len(cs) : cs[i] = x})

\* The indicator readings at the morning's last candle (lines 243-251).
\* `lib` is what the library returned for the day.
IndicatorsAt(cs, lib, idx) ==
    LET closes == [i \in 1..Len(cs) |-> cs[i].close]
    IN  [vwap  |-> calculateVWAP(cs)[idx],
         ema20 |-> calculateEMA_Friday(closes, lib.ema20)[idx],
         ema50 |-> calculateEMA_Friday(closes, lib.ema50)[idx],
         rsi   |-> calculateRSI_Friday(closes, lib.rsi)[idx],
         bb    |-> calculateBollingerBands(closes, lib.bb)[idx],
         atr   |-> calculateATR(cs, lib.atr)[idx],
         macd  |-> calculateMACD(closes, lib.macd)[idx],
         stoch |-> calculateStochastic(cs, lib.stoch)[idx]]

\* morningClose > reading ? 1 : -1, where the reading may be null:
\* JavaScript compares with null as with 0.
PriceVs(close, reading) ==
    IF reading = <<>>
    THEN (IF close > 0 THEN 1 ELSE -1)
    ELSE (IF close > reading[1] THEN 1 ELSE -1)

\* The morning entry of the result (lines 253-257 and 293-319).
MorningRecord(stats, ind) ==
    stats @@
    [vwap  |-> ind.vwap,
     ema20 |-> ind.ema20,
     ema50 |-> ind.ema50,
     rsi   |-> ind.rsi,
     bb    |-> ind.bb,
     atr   |-> ind.atr,
     macd  |-> ind.macd,
     stoch |-> ind.stoch,
     priceVsVWAP  |-> IF FracGT(Frac(stats.close, 1), ind.vwap) THEN 1 ELSE -1,
     priceVsEMA20 |-> PriceVs(stats.close, ind.ema20),
     priceVsEMA50 |-> PriceVs(stats.close, ind.ema50),
     priceBBPosition |->
        IF ind.bb # <<>>
        THEN Frac(stats.close - ind.bb[1].lower,
                  ind.bb[1].upper - ind.bb[1].lower)
        ELSE Frac(1, 2)]

\* The object analyzeFriday returns (lines 279-352).
FridayRecord(sessionDate, morning, afternoon, day) ==
    [date      |-> sessionDate,
     morning   |-> morning,
     afternoon |-> afternoon,
     day       |-> day,
     morningAfternoonAlign |-> (morning.bullish = afternoon.bullish),
     morningDayAlign       |-> (morning.bullish = day.bullish),
     morningRangePercent   |-> Frac(morning.range * 100, day.range),
     morningVolumePercent  |-> Frac(morning.volume * 100, day.volume)]

\* analyzeFriday(sessionDate, candles): null (<<>>) for a day with an empty
\* morning or afternoon, else the day's record.
analyzeFriday(sessionDate, raw, lib) ==
    LET sorted    == SortByTimestamp(raw)
        morning   == MorningSlice(sorted)
        afternoon == AfternoonSlice(sorted)
        idx       == IndexOf(sorted, morning[Len(morning)])
    IN  IF Len(morning) = 0 \/ Len(afternoon) = 0
        THEN <<>>
        ELSE <<FridayRecord(sessionDate,
                            MorningRecord(SessionStats(morning),
                                          IndicatorsAt(sorted, lib, idx)),
                            SessionStats(afternoon),
                            SessionStats(sorted))>>

----------------------------------------------------------------------------
(* buildMLFeatures. *)

\* reading || fallback: null and 0 are both falsy.
OrDefault(reading, fallback) ==
    IF reading = <<>> THEN fallback
    ELSE IF reading[1] = 0 THEN fallback
    ELSE reading[1]

\* The feature row of one day (lines 366-379).
FeatureRow(friday) ==
    <<friday.morning.movePercent,
      friday.morning.range,
      friday.morning.volume,
      OrDefault(friday.morning.rsi, 50),
      friday.morning.priceVsVWAP,
      friday.morning.priceVsEMA20,
      friday.morning.priceVsEMA50,
      friday.morning.priceBBPosition,
      IF friday.morning.macd # <<>> THEN friday.morning.macd[1].MACD ELSE 0,
      IF friday.morning.macd # <<>> THEN friday.morning.macd[1].signal ELSE 0,
      IF friday.morning.stoch # <<>> THEN friday.morning.stoch[1].k ELSE 50 * One,
      IF friday.morning.stoch # <<>> THEN friday.morning.stoch[1].d ELSE 50 * One>>

\* buildMLFeatures(fridayData): one row and one label per day, in order.
\* fridayData holds no null (line 618 pushes only a non-null analysis), so
\* the `if (!friday) continue` of line 363 skips nothing.
buildMLFeatures(data) ==
    [features |-> [i \in 1..Len(data) |-> FeatureRow(data[i])],
     labels   |-> [i \in 1..Len(data) |-> data[i].afternoon.movePercent]]

----------------------------------------------------------------------------
(* generateTradingSignals. *)

\* The four conditions of the if / else-if chain (lines 480, 491, 502, 512).
\* p is the prediction, m the morning percent move, v priceVsVWAP and r the
\* RSI after `|| 50`.
TrendLongRule(p, m, v, r) ==
    p > One \div 10 /\ FracGT(m, Frac(0, 1)) /\ v > 0

TrendShortRule(p, m, v, r) ==
    p < 0 - (One \div 10) /\ FracLT(m, Frac(0, 1)) /\ v < 0

ReversalLongAnyMove(p, m, v, r) == p > (15 * One) \div 100 /\ r < 40

ReversalLongRule(p, m, v, r) ==
    p > (15 * One) \div 100 /\ FracLT(m, Frac(0 - 2, 10)) /\ r < 40

ReversalShortRule(p, m, v, r) ==
    p < 0 - ((15 * One) \div 100) /\ FracGT(m, Frac(2, 10)) /\ r > 60

TimesThree(x) == x * 3

\* x * 2.5, exact for the even fixed-point numbers the model uses.
TimesTwoAndHalf(x) == (x * 5) \div 2

TrendConfidenceCap90(p, bonus) ==
    Min2(90 * One,
         50 * One + Abs(p) * 10 + (IF bonus THEN 10 * One ELSE 0) + 10 * One)

\* Math.min(95, 50 + Math.abs(mlPrediction) * 10 + bonus + 10) of lines 482
\* and 493; `bonus` is true when the RSI condition of the branch holds.
TrendConfidence(p, bonus) ==
    Min2(95 * One,
         50 * One + Abs(p) * 10 + (IF bonus THEN 10 * One ELSE 0) + 10 * One)

\* Math.min(90, 55 + Math.abs(mlPrediction) * 8) of lines 504 and 514.
ReversalConfidence(p) == Min2(90 * One, 55 * One + Abs(p) * 8)

IsWinOrFlat(signal, actualAfternoon) ==
    IF signal = "LONG"
    THEN ~FracLT(actualAfternoon, Frac(0, 1))
    ELSE ~FracGT(actualAfternoon, Frac(0, 1))

\* signal === 'LONG' ? actualAfternoon > 0 : actualAfternoon < 0 (528-530).
IsWin(signal, actualAfternoon) ==
    IF signal = "LONG"
    THEN FracGT(actualAfternoon, Frac(0, 1))
    ELSE FracLT(actualAfternoon, Frac(0, 1))

\* The signal, confidence, stopLoss, target and reasoning the chain assigns
\* (lines 472-520); signal is "" when no branch is taken.
Decision(friday, mlPrediction) ==
    LET m          == friday.morning.movePercent
        r          == OrDefault(friday.morning.rsi, 50)
        v          == friday.morning.priceVsVWAP
        p          == mlPrediction
        entryPrice == friday.morning.close
    IN  IF TrendLongRule(p, m, v, r)
        THEN [signal     |-> "LONG",
              confidence |-> TrendConfidence(p, r < 70),
              stopLoss   |-> friday.morning.low,
              target     |-> entryPrice + Abs(entryPrice - friday.morning.low) * 3,
              reasoning  |-> <<"ML predicts bullish afternoon",
                               "Morning session bullish",
                               "Price above VWAP">>
                             \o (IF r < 70 THEN <<"RSI not overbought">> ELSE <<>>)]
        ELSE IF TrendShortRule(p, m, v, r)
        THEN [signal     |-> "SHORT",
              confidence |-> TrendConfidence(p, r > 30),
              stopLoss   |-> friday.morning.high,
              target     |-> entryPrice - Abs(friday.morning.high - entryPrice) * 3,
              reasoning  |-> <<"ML predicts bearish afternoon",
                               "Morning session bearish",
                               "Price below VWAP">>
                             \o (IF r > 30 THEN <<"RSI not oversold">> ELSE <<>>)]
        ELSE IF ReversalLongRule(p, m, v, r)
        THEN [signal     |-> "LONG",
              confidence |-> ReversalConfidence(p),
              stopLoss   |-> friday.morning.low,
              target     |-> entryPrice
                             + TimesTwoAndHalf(Abs(entryPrice - friday.morning.low)),
              reasoning  |-> <<"ML predicts reversal",
                               "Morning oversold (RSI < 40)",
                               "Strong morning drop may reverse">>]
        ELSE IF ReversalShortRule(p, m, v, r)
        THEN [signal     |-> "SHORT",
              confidence |-> ReversalConfidence(p),
              stopLoss   |-> friday.morning.high,
              target     |-> entryPrice
                             - TimesTwoAndHalf(Abs(friday.morning.high - entryPrice)),
              reasoning  |-> <<"ML predicts reversal",
                               "Morning overbought (RSI > 60)",
                               "Strong morning rally may reverse">>]
        ELSE [signal |-> "", confidence |-> 0, stopLoss |-> 0, target |-> 0,
              reasoning |-> <<>>]

\* reasoning.join('; ') is kept as the sequence of its parts.
\* (reward / risk).toFixed(2): "NaN" (<<>>) for 0/0, else the hundredths.
RatioToFixed2(reward, risk) ==
    IF risk = 0 THEN <<>> ELSE <<FracToFixed2(Frac(reward, risk))>>

\* The record pushed for a day (lines 522-549), <<>> when there is none.
\* Fields written with toFixed(2) hold hundredths, mlPrediction (toFixed(4))
\* holds ten-thousandths.
SignalFor(friday, mlPrediction) ==
    LET dec             == Decision(friday, mlPrediction)
        entryPrice      == friday.morning.close
        actualAfternoon == friday.afternoon.movePercent
        risk            == Abs(entryPrice - dec.stopLoss)
        reward          == Abs(dec.target - entryPrice)
        outcome         == IsWin(dec.signal, actualAfternoon)
    IN  IF dec.signal = "" THEN <<>>
        ELSE <<[date       |-> friday.date,
                signal     |-> dec.signal,
                confidence |-> ToFixed2(dec.confidence),
                entry      |-> ToFixed2(entryPrice),
                stopLoss   |-> ToFixed2(dec.stopLoss),
                target     |-> ToFixed2(dec.target),
                risk       |-> ToFixed2(risk),
                reward     |-> ToFixed2(reward),
                riskReward |-> RatioToFixed2(reward, risk),
                mlPrediction |-> ToFixed4(mlPrediction),
                morningMove  |-> FracToFixed2(friday.morning.movePercent),
                morningRSI   |-> 100 * OrDefault(friday.morning.rsi, 50),
                actualAfternoonMove |-> FracToFixed2(actualAfternoon),
                outcome    |-> IF outcome THEN "WIN" ELSE "LOSS",
                reasoning  |-> dec.reasoning]>>

\* The loop with every day reading the first prediction.
RECURSIVE SignalsUpToFirstPrediction(_, _, _)
SignalsUpToFirstPrediction(data, predictions, i) ==
    IF i = 0 THEN <<>>
    ELSE SignalsUpToFirstPrediction(data, predictions, i - 1)
         \o SignalFor(data[i], predictions[1])

\* generateTradingSignals(fridayData, mlPredictions): the days in order, at
\* most one record pushed per day.  As in buildMLFeatures, the
\* `if (!friday) continue` of line 463 skips nothing.
RECURSIVE SignalsUpTo(_, _, _)
SignalsUpTo(data, predictions, i) ==
    IF i = 0 THEN <<>>
    ELSE SignalsUpTo(data, predictions, i - 1)
         \o SignalFor(data[i], predictions[i])

generateTradingSignals(data, predictions) ==
    SignalsUpTo(data, predictions, Len(data))

\* signals.sort((a, b) => parseFloat(b.confidence) - parseFloat(a.confidence))
\* of line 716: descending by confidence, in place, ties keeping their order.
InsertByConfidence(sorted, s) ==
    LET before == SelectSeq(sorted, LAMBDA x :
                      ParseFloat2(x.confidence) >= ParseFloat2(s.confidence))
        after  == SelectSeq(sorted, LAMBDA x :
                      ParseFloat2(x.confidence) < ParseFloat2(s.confidence))
    IN  before \o <<s>> \o after

RECURSIVE SortByConfidence(_)
SortByConfidence(ss) ==
    IF ss = <<>> THEN <<>>
    ELSE InsertByConfidence(SortByConfidence(SubSeq(ss, 1, Len(ss) - 1)),
                            ss[Len(ss)])

----------------------------------------------------------------------------
(* The inputs of the model. *)

\* Candle timestamps, in minutes after midnight UTC: 07:55, 08:00, 09:55,
\* 10:00, 21:55 and 22:00, one on each side of every session boundary.
Timestamps == {475, 480, 595, 600, 1315, 1320}

\* The price data of a candle.  Prices have three decimals, as the quotes
\* of the data provider.
Shapes ==
    {[open |-> 100 * One, high |-> 102 * One, low |-> 99 * One + 9960,
      close |-> 102 * One, volume |-> 10],
     [open |-> 102 * One, high |-> 102 * One + 40, low |-> 100 * One,
      close |-> 100 * One, volume |-> 0]}

CandleOf(t, shape) == [timestamp |-> t] @@ shape

CandlePool == {CandleOf(t, shape) : t \in Timestamps, shape \in Shapes}

\* What collection.find({session_date, interval}).toArray() can return for
\* a day: up to MaxCandles candles in any order, no two with the same
\* timestamp (the collection's unique index is on timestamp and interval).
DayCandles ==
    {cs \in UNION {SeqsOfLen(CandlePool, n) : n \in 0..MaxCandles} :
        \A i, j \in 1..Len(cs) : i # j => cs[i].timestamp # cs[j].timestamp}

\* What the network can predict for a row in the pipeline: -0.3 or +0.3.
PipelinePredictions == {0 - 3000, 3000}

----------------------------------------------------------------------------
(* analyzeFridayEdge. *)

Init ==
    /\ pc = "analyze"
    /\ numFridays \in 0..MaxDays
    /\ dayIdx = 1
    /\ sessionHours = <<>>
    /\ candles = <<>>
    /\ morningCandles = <<>>
    /\ afternoonCandles = <<>>
    /\ analysis = <<>>
    /\ fridayData = <<>>
    /\ features = <<>>
    /\ labels = <<>>
    /\ mlPredictions = <<>>
    /\ signals = <<>>
    /\ fn = "analyzeFridayEdge"
    /\ args = <<>>
    /\ output = <<>>

\* One round of the loop of lines 611-621: fetch the day's candles and
\* analyse them; a non-null analysis is pushed.
AnalyzeNextFriday ==
    /\ pc = "analyze"
    /\ dayIdx <= numFridays
    /\ \E raw \in DayCandles :
         \E lib \in LibraryOutputs(Len(raw)) :
            LET result == analyzeFriday(dayIdx, raw, lib)
            IN  /\ candles' = SortByTimestamp(raw)
                /\ morningCandles' = MorningSlice(SortByTimestamp(raw))
                /\ afternoonCandles' = AfternoonSlice(SortByTimestamp(raw))
                /\ analysis' = result
                /\ fridayData' = fridayData \o result
                /\ sessionHours' =
                      Append(sessionHours,
                             {GetUTCHours(raw[i].timestamp) : i \in 1..Len(raw)})
    /\ dayIdx' = dayIdx + 1
    /\ UNCHANGED <<pc, numFridays, features, labels, mlPredictions, signals,
                   fn, args, output>>

\* Lines 623-628: the loop is over; build the data set.  With no complete
\* day, features[0].length of line 628 throws a TypeError, which the catch
\* of line 783 turns into process.exit(1).
BuildDataset ==
    /\ pc = "analyze"
    /\ dayIdx > numFridays
    /\ features' = buildMLFeatures(fridayData).features
    /\ labels' = buildMLFeatures(fridayData).labels
    /\ pc' = IF Len(fridayData) = 0 THEN "crashed" ELSE "predict"
    /\ candles' = <<>>
    /\ morningCandles' = <<>>
    /\ afternoonCandles' = <<>>
    /\ analysis' = <<>>
    /\ UNCHANGED <<numFridays, dayIdx, sessionHours, fridayData,
                   mlPredictions, signals, fn, args, output>>

\* Lines 630-642: train the network and predict every row.  The network is
\* TensorFlow's: what it predicts is an input of the model.
TrainAndPredict ==
    /\ pc = "predict"
    /\ mlPredictions' \in SeqsOfLen(PipelinePredictions, Len(features))
    /\ pc' = "signals"
    /\ UNCHANGED <<numFridays, dayIdx, sessionHours, candles, morningCandles,
                   afternoonCandles, analysis, fridayData, features, labels,
                   signals, fn, args, output>>

\* Line 646.
GenerateSignals ==
    /\ pc = "signals"
    /\ signals' = generateTradingSignals(fridayData, mlPredictions)
    /\ pc' = "report"
    /\ UNCHANGED <<numFridays, dayIdx, sessionHours, candles, morningCandles,
                   afternoonCandles, analysis, fridayData, features, labels,
                   mlPredictions, fn, args, output>>

\* (count / fridayData.length * 100).toFixed(2) of lines 698-699, in
\* hundredths of a percent.
PercentOfDays(count, data) == FracToFixed2(Frac(count * 100, Len(data)))

\* The "PREDICTIVE POWER" section of the report (lines 691-699).
PredictivePower(data) ==
    LET alignedMorningAfternoon ==
            Cardinality({i \in 1..Len(data) : data[i].morningAfternoonAlign})
        alignedMorningDay ==
            Cardinality({i \in 1..Len(data) : data[i].morningDayAlign})
    IN  [morningPredictsAfternoon |-> PercentOfDays(alignedMorningAfternoon, data),
         morningPredictsDay       |-> PercentOfDays(alignedMorningDay, data)]

\* Lines 649-781: the report and the export.  With no signal, stats.mean of
\* line 652 is given an empty array and throws (Object.keys(signals[0]) of
\* line 743 would throw a TypeError at the latest), so nothing is reported;
\* otherwise the predictive power is printed and the signals end sorted by
\* confidence (line 716).
Report ==
    /\ pc = "report"
    /\ IF Len(signals) = 0
       THEN pc' = "crashed" /\ signals' = signals /\ output' = output
       ELSE /\ pc' = "done"
            /\ signals' = SortByConfidence(signals)
            /\ output' = <<PredictivePower(fridayData)>>
    /\ UNCHANGED <<numFridays, dayIdx, sessionHours, candles, morningCandles,
                   afternoonCandles, analysis, fridayData, features, labels,
                   mlPredictions, fn, args>>

----------------------------------------------------------------------------
(* The signal generator on its own: generateTradingSignals applied to the  *)
(* day records analyzeFriday can build and the predictions the network can *)
(* make.                                                                   *)

\* A morning of the grid: it opens at 100.000 and closes `close`, its low
\* lies `margin` below the lower of the two and its high `margin` above the
\* higher.
MorningCloses ==
    {102 * One, 100 * One + 2000, 100 * One + 1000, 100 * One,
     100 * One - 1000, 100 * One - 2000, 100 * One - 3000, 98 * One}

Margins == {0, 40, One}

GridCandle(open, close, margin, volume) ==
    [timestamp |-> 0,
     open   |-> open,
     close  |-> close,
     high   |-> (IF open > close THEN open ELSE close) + margin,
     low    |-> (IF open < close THEN open ELSE close) - margin,
     volume |-> volume]

\* The afternoons of the grid: up, flat and down.
GridAfternoons ==
    {GridCandle(100 * One, 101 * One, One, 10),
     GridCandle(100 * One, 100 * One, One, 10),
     GridCandle(100 * One, 99 * One, One, 10)}

\* The VWAP at the morning's end, relative to the morning close: the day's
\* earlier candles can put it on either side.
GridVwaps(close) == {Frac(close - One, 1), Frac(close, 1), Frac(close + One, 1)}

\* The RSI at the morning's end: null in the warm-up, else a reading.
GridRsi == {<<>>} \cup {<<r>> : r \in RsiReadings}

\* The record analyzeFriday builds for a day with the given morning and
\* afternoon and the given readings at the morning's end.
GridDay(date, morning, afternoon, vwap, rsi) ==
    FridayRecord(date,
                 MorningRecord(SessionStats(<<morning>>),
                               [vwap |-> vwap, ema20 |-> <<>>, ema50 |-> <<>>,
                                rsi |-> rsi, bb |-> <<>>, atr |-> <<>>,
                                macd |-> <<>>, stoch |-> <<>>]),
                 SessionStats(<<afternoon>>),
                 SessionStats(<<morning, afternoon>>))

\* Predictions: 0, and on both sides 0.1, 0.1234, 0.15, 0.16, 0.3 and 5.
GridPredictions ==
    LET sizes == {1000, 1234, 1500, 1600, 3000, 5 * One}
    IN  {0} \cup sizes \cup {0 - p : p \in sizes}

\* The days after the first come from a short list: a rising morning above
\* VWAP and a falling morning below it, each with a rising afternoon.
TailDay(date, rising) ==
    GridDay(date,
            GridCandle(100 * One, IF rising THEN 102 * One ELSE 98 * One, 40, 10),
            GridCandle(100 * One, 101 * One, One, 10),
            Frac(100 * One, 1),
            <<45>>)

TailPredictions == {0 - 3000, 3000}

SignalInit ==
    /\ pc = "signals"
    /\ numFridays \in 1..MaxSignalDays
    /\ dayIdx = numFridays + 1
    /\ sessionHours = <<>>
    /\ candles = <<>>
    /\ morningCandles = <<>>
    /\ afternoonCandles = <<>>
    /\ analysis = <<>>
    /\ \E close \in MorningCloses, margin \in Margins,
          afternoon \in GridAfternoons, rsi \in GridRsi :
         \E vwap \in GridVwaps(close) :
            \E tail \in SeqsOfLen(BOOLEAN, numFridays - 1) :
               fridayData =
                  <<GridDay(1, GridCandle(100 * One, close, margin, 10),
                            afternoon, vwap, rsi)>>
                  \o [i \in 1..(numFridays - 1) |-> TailDay(i + 1, tail[i])]
    /\ features = buildMLFeatures(fridayData).features
    /\ labels = buildMLFeatures(fridayData).labels
    /\ \E first \in GridPredictions :
         \E rest \in SeqsOfLen(TailPredictions, numFridays - 1) :
            mlPredictions = <<first>> \o rest
    /\ signals = <<>>
    /\ fn = "generateTradingSignals"
    /\ args = <<>>
    /\ output = <<>>

SignalSpec == SignalInit /\ [][GenerateSignals]_vars

----------------------------------------------------------------------------
(* Helper functions applied on their own.  The pipeline is at rest; `args` *)
(* holds the arguments, and a call records the callee in `fn` and what it  *)
(* returned in `output`.                                                   *)

HelperInit(inputs) ==
    /\ pc = "helper"
    /\ numFridays = 0
    /\ dayIdx = 1
    /\ sessionHours = <<>>
    /\ candles = <<>>
    /\ morningCandles = <<>>
    /\ afternoonCandles = <<>>
    /\ analysis = <<>>
    /\ fridayData = <<>>
    /\ features = <<>>
    /\ labels = <<>>
    /\ mlPredictions = <<>>
    /\ signals = <<>>
    /\ fn = ""
    /\ args \in inputs
    /\ output = <<>>

Call(name, value) ==
    /\ pc = "helper"
    /\ fn = ""
    /\ fn' = name
    /\ output' = value
    /\ UNCHANGED <<pc, numFridays, dayIdx, sessionHours, candles,
                   morningCandles, afternoonCandles, analysis, fridayData,
                   features, labels, mlPredictions, signals, args>>

----------------------------------------------------------------------------
(* calculateStats, in its three versions. *)

\* [...values].sort((a, b) => a - b): ascending.
InsertAscending(sorted, x) ==
    SelectSeq(sorted, LAMBDA y : y <= x) \o <<x>>
        \o SelectSeq(sorted, LAMBDA y : y > x)

RECURSIVE SortAscending(_)
SortAscending(values) ==
    IF values = <<>> THEN <<>>
    ELSE InsertAscending(SortAscending(SubSeq(values, 1, Len(values) - 1)),
                         values[Len(values)])

\* values.reduce((a, b) => a + b, 0).
RECURSIVE Sum(_)
Sum(values) ==
    IF values = <<>> THEN 0 ELSE Sum(SubSeq(values, 1, Len(values) - 1))
                                 + values[Len(values)]

\* values.reduce((sum, val) => sum + Math.pow(val - mean, 2), 0) /
\* values.length with mean = Sum / n: the fraction
\* sum((n * val - Sum)^2) / n^3.
RECURSIVE SumSquaredDeviations(_, _, _)
SumSquaredDeviations(values, total, i) ==
    IF i = 0 THEN 0
    ELSE SumSquaredDeviations(values, total, i - 1)
         + (Len(values) * values[i] - total) * (Len(values) * values[i] - total)

Variance(values) ==
    Frac(SumSquaredDeviations(values, Sum(values), Len(values)),
         Len(values) * Len(values) * Len(values))

\* sorted[Math.floor(sorted.length * 0.25 * quarters)]: the positions of
\* the code count from 0, those of a sequence from 1.
ElementAtFloor(sorted, quarters) ==
    sorted[((Len(sorted) * quarters) \div 4) + 1]

\* calculateStats of analyze_monday_entries.js (lines 99-117).  The record
\* returned for no value has no q25 and no q75; stdDev is the square root
\* of `variance`, which is what the model keeps.
calculateStats(values) ==
    IF Len(values) = 0
    THEN [mean |-> Frac(0, 1), median |-> <<0>>, variance |-> Frac(0, 1),
          min |-> <<0>>, max |-> <<0>>, q25 |-> <<>>, q75 |-> <<>>]
    ELSE LET sorted == SortAscending(values)
         IN  [mean     |-> Frac(Sum(values), Len(values)),
              median   |-> <<ElementAtFloor(sorted, 2)>>,
              variance |-> Variance(values),
              min      |-> <<sorted[1]>>,
              max      |-> <<sorted[Len(sorted)]>>,
              q25      |-> <<ElementAtFloor(sorted, 1)>>,
              q75      |-> <<ElementAtFloor(sorted, 3)>>]

\* calculateStats of the Monday patterns script (part_003, lines 46-64).
calculateStats_Patterns(values) ==
    IF Len(values) = 0
    THEN [mean |-> Frac(0, 1), median |-> <<0>>, variance |-> Frac(0, 1),
          min |-> <<0>>, max |-> <<0>>, q25 |-> <<>>, q75 |-> <<>>]
    ELSE LET sorted == SortAscending(values)
         IN  [mean     |-> Frac(Sum(values), Len(values)),
              median   |-> <<ElementAtFloor(sorted, 2)>>,
              variance |-> Variance(values),
              min      |-> <<sorted[1]>>,
              max      |-> <<sorted[Len(sorted)]>>,
              q25      |-> <<ElementAtFloor(sorted, 1)>>,
              q75      |-> <<ElementAtFloor(sorted, 3)>>]

\* stats.quantile(values, quarters / 4) and stats.median (its 0.5 case) of
\* the simple-statistics package, which the Friday script calls: with
\* idx = n * p, the element at ceil(idx) - 1 when idx is no whole number,
\* else, for an even n, the mean of the elements at idx - 1 and idx, else
\* the element at idx (positions counted from 0).
quantile(values, quarters) ==
    LET sorted == SortAscending(values)
        n      == Len(values)
        idx    == (n * quarters) \div 4
    IN  IF (n * quarters) % 4 # 0
        THEN Frac(sorted[(n * quarters + 3) \div 4], 1)
        ELSE IF n % 2 = 0
        THEN Frac(sorted[idx] + sorted[idx + 1], 2)
        ELSE Frac(sorted[idx + 1], 1)

\* calculateStats of the Friday script (download_year_data.sh, lines
\* 558-570): null for no value.  std is the square root of `variance`.
calculateStats_Friday(values) ==
    IF Len(values) = 0 THEN <<>>
    ELSE <<[mean     |-> Frac(Sum(values), Len(values)),
            median   |-> quantile(values, 2),
            variance |-> Variance(values),
            min      |-> SortAscending(values)[1],
            max      |-> SortAscending(values)[Len(values)],
            q1       |-> quantile(values, 1),
            q3       |-> quantile(values, 3)]>>

\* The samples: up to MaxSample values, and 1..10 in order and shuffled.
SampleValues == {1, 2, 3, 5}

StatsSamples ==
    UNION {SeqsOfLen(SampleValues, n) : n \in 0..MaxSample}
    \cup {[i \in 1..10 |-> i], <<10, 1, 9, 2, 8, 3, 7, 4, 6, 5>>}

StatsInit == HelperInit(StatsSamples)

CallCalculateStats == Call("calculateStats", calculateStats(args))

CallCalculateStats_Patterns ==
    Call("calculateStats_Patterns", calculateStats_Patterns(args))

CallCalculateStats_Friday ==
    Call("calculateStats_Friday", calculateStats_Friday(args))

StatsNext ==
    \/ CallCalculateStats
    \/ CallCalculateStats_Patterns
    \/ CallCalculateStats_Friday

StatsSpec == StatsInit /\ [][StatsNext]_vars

----------------------------------------------------------------------------
(* analyzeMondayPatterns (part_003, the script analyze_monday_patterns.js) *)
(* with the default interval of 5 minutes.                                 *)

\* INTERVAL === '1m' ? 60 : 12 (line 118).
CANDLES_PER_HOUR == 12

\* The entry pushed to mondayStats for a day (lines 114-183): the prices
\* and the direction flags.  The candles come sorted by timestamp from the
\* query (line 110).
MondayEntry(date, cs) ==
    LET firstCandle      == cs[1]
        lastCandle       == cs[Len(cs)]
        firstHourCandles == SubSeq(cs, 1, Min2(CANDLES_PER_HOUR, Len(cs)))
        dailyHigh        == SetMax({cs[i].high : i \in 1..Len(cs)})
        dailyLow         == SetMin({cs[i].low : i \in 1..Len(cs)})
        dailyChange      == lastCandle.close - firstCandle.open
        firstHourHigh    == SetMax({firstHourCandles[i].high :
                                       i \in 1..Len(firstHourCandles)})
        firstHourLow     == SetMin({firstHourCandles[i].low :
                                       i \in 1..Len(firstHourCandles)})
        firstHourClose   == firstHourCandles[Len(firstHourCandles)].close
        firstHourChange  == firstHourClose - firstCandle.open
    IN  [date                   |-> date,
         open                   |-> firstCandle.open,
         close                  |-> lastCandle.close,
         high                   |-> dailyHigh,
         low                    |-> dailyLow,
         dailyRange             |-> dailyHigh - dailyLow,
         dailyChange            |-> dailyChange,
         dailyChangePercent     |-> Frac(dailyChange * 100, firstCandle.open),
         firstHourRange         |-> firstHourHigh - firstHourLow,
         firstHourChange        |-> firstHourChange,
         firstHourChangePercent |-> Frac(firstHourChange * 100, firstCandle.open),
         bullishDay             |-> dailyChange > 0,
         bearishDay             |-> dailyChange < 0,
         firstHourBullish       |-> firstHourChange > 0,
         firstHourBearish       |-> firstHourChange < 0,
         candleCount            |-> Len(cs)]

\* The loop of lines 107-184: a day without candles is skipped.
RECURSIVE MondayStatsUpTo(_, _)
MondayStatsUpTo(days, i) ==
    IF i = 0 THEN <<>>
    ELSE MondayStatsUpTo(days, i - 1)
         \o (IF Len(days[i]) = 0 THEN <<>> ELSE <<MondayEntry(i, days[i])>>)

\* Sections 1 and 6 of the report (lines 189-195 and 260-268): the counts,
\* and the percentages as formatNumber writes them, in hundredths.
MondayReport(mondayStats) ==
    LET n == Len(mondayStats)
        Count(P(_)) == Cardinality({i \in 1..n : P(mondayStats[i])})
        bullishDays == Count(LAMBDA e : e.bullishDay)
        firstHourBullishDayBullish ==
            Count(LAMBDA e : e.firstHourBullish /\ e.bullishDay)
        firstHourBearishDayBearish ==
            Count(LAMBDA e : e.firstHourBearish /\ e.bearishDay)
        firstHourCorrect ==
            firstHourBullishDayBullish + firstHourBearishDayBearish
    IN  [total              |-> n,
         bullishDays        |-> bullishDays,
         bearishDays        |-> Count(LAMBDA e : e.bearishDay),
         bullishPercent     |-> FracToFixed2(Frac(bullishDays * 100, n)),
         firstHourCorrect   |-> firstHourCorrect,
         predictionAccuracy |-> FracToFixed2(Frac(firstHourCorrect * 100, n))]

\* analyzeMondayPatterns: nothing is reported when the collection has no
\* Monday (lines 99-102).
analyzeMondayPatterns(days) ==
    IF Len(days) = 0 THEN <<>>
    ELSE <<MondayReport(MondayStatsUpTo(days, Len(days)))>>

\* A candle of a Monday: it opens at `open`, closes at `close` and does
\* not trade outside the two.
MondayCandle(t, open, close) ==
    [timestamp |-> t,
     open   |-> open,
     close  |-> close,
     high   |-> IF open > close THEN open ELSE close,
     low    |-> IF open < close THEN open ELSE close,
     volume |-> 10]

\* A Monday of `len` candles that opens at 100: the first hour (the first
\* 12 candles, or all if there are fewer) closes `firstHour` points from
\* the open, the day `day` points from it.
MondayOf(len, firstHour, day) ==
    [i \in 1..len |->
        MondayCandle(i, 100 * One,
                     IF i = len THEN 100 * One + day * One
                     ELSE IF i = CANDLES_PER_HOUR THEN 100 * One + firstHour * One
                     ELSE 100 * One)]

\* The Mondays of the model: of one candle, where the first hour is the
\* day, and of 13 candles, where the day can end on another side of the
\* open than the first hour.
Mondays ==
    {MondayOf(1, d, d) : d \in {0 - 1, 0, 1}}
    \cup {MondayOf(CANDLES_PER_HOUR + 1, f, d) :
             f \in {0 - 1, 0, 1}, d \in {0 - 1, 0, 1}}

MondayInputs == UNION {SeqsOfLen(Mondays, n) : n \in 0..MaxMondays}

PatternsInit == HelperInit(MondayInputs)

CallAnalyzeMondayPatterns ==
    Call("analyzeMondayPatterns", analyzeMondayPatterns(args))

PatternsSpec == PatternsInit /\ [][CallAnalyzeMondayPatterns]_vars

----------------------------------------------------------------------------
(* The indicator functions of analyze_monday_entries.js, which are written *)
(* out in the script, next to those of the Friday script, which pad what   *)
(* the technicalindicators library returns.  Their values are fractions.   *)

FracEQ(a, b) == a.n * b.d = b.n * a.d

\* candle.volume || 1.
MondayVolume(candle) == IF candle.volume = 0 THEN 1 ELSE candle.volume

RECURSIVE MondayCumulativeTPV(_, _)
MondayCumulativeTPV(cs, i) ==
    IF i = 0 THEN 0
    ELSE MondayCumulativeTPV(cs, i - 1)
         + (cs[i].high + cs[i].low + cs[i].close) * MondayVolume(cs[i])

RECURSIVE MondayCumulativeVolume(_, _)
MondayCumulativeVolume(cs, i) ==
    IF i = 0 THEN 0 ELSE MondayCumulativeVolume(cs, i - 1) + MondayVolume(cs[i])

\* calculateVWAP of analyze_monday_entries.js (lines 45-56): entry i is
\* sum(hlc * volume) / (3 * sum(volume)), a volume of 0 counting as 1.
calculateVWAP_Monday(cs) ==
    [i \in 1..Len(cs) |->
        Frac(MondayCumulativeTPV(cs, i), 3 * MondayCumulativeVolume(cs, i))]

RECURSIVE Power(_, _)
Power(base, exponent) ==
    IF exponent = 0 THEN 1 ELSE base * Power(base, exponent - 1)

\* The numerator of ema[i] over the denominator (period + 1)^(i - 1), for
\* i counted from 1: prices[i] * k + ema[i - 1] * (1 - k) with
\* k = 2 / (period + 1) is (2 * prices[i] + (period - 1) * ema[i - 1])
\* / (period + 1).
RECURSIVE EmaNumerator(_, _, _)
EmaNumerator(prices, period, i) ==
    IF i = 1 THEN prices[1]
    ELSE 2 * prices[i] * Power(period + 1, i - 2)
         + (period - 1) * EmaNumerator(prices, period, i - 1)

\* calculateEMA of analyze_monday_entries.js (lines 58-66).  For no price
\* the result is [prices[0]], one undefined entry.
calculateEMA(prices, period) ==
    IF Len(prices) = 0 THEN <<<<>>>>
    ELSE [i \in 1..Len(prices) |->
             <<Frac(EmaNumerator(prices, period, i), Power(period + 1, i - 1))>>]

\* changes[i] = prices[i] - prices[i - 1] (lines 71-74).
Changes(prices) == [i \in 1..(Len(prices) - 1) |-> prices[i + 1] - prices[i]]

Gain(change) == IF change > 0 THEN change ELSE 0

LossSigned(change) == IF change < 0 THEN change ELSE 0

\* Math.abs(change) for a falling step, else 0.
Loss(change) == IF change < 0 THEN 0 - change ELSE 0

\* The numerators of avgGain and avgLoss after the change at position i
\* (counted from 1, i >= period) over the denominator
\* period^(i - period + 1): the seed of lines 80-85 at i = period, then
\* the smoothing of lines 89-90.
RECURSIVE AvgGainNumerator(_, _, _)
AvgGainNumerator(changes, period, i) ==
    IF i = 0 THEN 0
    ELSE IF i <= period
    THEN AvgGainNumerator(changes, period, i - 1) + Gain(changes[i])
    ELSE AvgGainNumerator(changes, period, i - 1) * (period - 1)
         + Gain(changes[i]) * Power(period, i - period)

RECURSIVE AvgLossNumerator(_, _, _)
AvgLossNumerator(changes, period, i) ==
    IF i = 0 THEN 0
    ELSE IF i <= period
    THEN AvgLossNumerator(changes, period, i - 1) + Loss(changes[i])
    ELSE AvgLossNumerator(changes, period, i - 1) * (period - 1)
         + Loss(changes[i]) * Power(period, i - period)

\* rs = avgLoss === 0 ? 100 : avgGain / avgLoss (line 92).
RelativeStrength(avgGain, avgLoss) ==
    IF avgLoss = 0 THEN Frac(100, 1) ELSE Frac(avgGain, avgLoss)

\* 100 - (100 / (1 + rs)) (line 93), which is 100 * rs / (1 + rs).
RsiOf(rs) == Frac(100 * rs.n, rs.d + rs.n)

\* calculateRSI of analyze_monday_entries.js (lines 68-97): 50 everywhere
\* for fewer than period + 1 prices; else 50 followed by one value per
\* change after the first `period` changes.
calculateRSI(prices, period) ==
    IF Len(prices) < period + 1
    THEN [i \in 1..Len(prices) |-> Frac(50, 1)]
    ELSE <<Frac(50, 1)>> \o
         [k \in 1..(Len(prices) - 1 - period) |->
             RsiOf(RelativeStrength(
                 AvgGainNumerator(Changes(prices), period, period + k),
                 AvgLossNumerator(Changes(prices), period, period + k)))]

\* The candles of the indicator checks: the close and the volume vary,
\* the high lies 1 above the close and the low 2 below it.
SeriesCandles ==
    {[open |-> c, high |-> c + 1, low |-> c - 2, close |-> c, volume |-> v] :
        c \in {100, 101, 103}, v \in {0, 10}}

\* closes = candles.map(c => c.close), what the callers pass as prices.
Closes(cs) == [i \in 1..Len(cs) |-> cs[i].close]

IndicatorInputs ==
    [candles : UNION {SeqsOfLen(SeriesCandles, n) : n \in 0..MaxSeries},
     period  : 1..MaxPeriod]

\* What the library can return for the input: `warmup` entries fewer than
\* the input has, each one of `readings`.
LibraryValues(readings, warmup) ==
    SeqsOfLen(readings, LibraryCount(Len(args.candles), warmup))

IndicatorInit == HelperInit(IndicatorInputs)

CallCalculateVWAP == Call("calculateVWAP", calculateVWAP(args.candles))

CallCalculateVWAP_Monday ==
    Call("calculateVWAP_Monday", calculateVWAP_Monday(args.candles))

CallCalculateEMA ==
    Call("calculateEMA", calculateEMA(Closes(args.candles), args.period))

CallCalculateRSI ==
    Call("calculateRSI", calculateRSI(Closes(args.candles), args.period))

CallCalculateEMA_Friday ==
    \E values \in LibraryValues({100, 103}, args.period - 1) :
        Call("calculateEMA_Friday",
             calculateEMA_Friday(Closes(args.candles), values))

CallCalculateRSI_Friday ==
    \E values \in LibraryValues({30, 70}, args.period) :
        Call("calculateRSI_Friday",
             calculateRSI_Friday(Closes(args.candles), values))

CallCalculateBollingerBands ==
    \E values \in LibraryValues(BandReadings, args.period - 1) :
        Call("calculateBollingerBands",
             calculateBollingerBands(Closes(args.candles), values))

CallCalculateATR ==
    \E values \in LibraryValues({One}, args.period) :
        Call("calculateATR", calculateATR(args.candles, values))

CallCalculateMACD ==
    \E values \in LibraryValues(MacdReadings, MACD_SLOW_PERIOD - 1) :
        Call("calculateMACD", calculateMACD(Closes(args.candles), values))

CallCalculateStochastic ==
    \E values \in LibraryValues(StochReadings, args.period - 1) :
        Call("calculateStochastic", calculateStochastic(args.candles, values))

IndicatorNext ==
    \/ CallCalculateVWAP
    \/ CallCalculateVWAP_Monday
    \/ CallCalculateEMA
    \/ CallCalculateRSI
    \/ CallCalculateEMA_Friday
    \/ CallCalculateRSI_Friday
    \/ CallCalculateBollingerBands
    \/ CallCalculateATR
    \/ CallCalculateMACD
    \/ CallCalculateStochastic

IndicatorSpec == IndicatorInit /\ [][IndicatorNext]_vars

----------------------------------------------------------------------------
(* trainNeuralNetwork and predict on their own: the normalisation, which   *)
(* is the script's; the network is TensorFlow's, and what it predicts is   *)
(* an input of the model.                                                  *)

\* Column j of the feature rows.
Column(rows, j) == [i \in 1..Len(rows) |-> rows[i][j]]

\* tf.moments(featureTensor, 0) of line 398: per feature, the mean and the
\* population variance over the rows.  std = variance.sqrt() (line 399) is
\* kept as its square, the exact variance.
TrainingMean(rows) ==
    [j \in 1..Len(rows[1]) |-> Frac(Sum(Column(rows, j)), Len(rows))]

TrainingStd(rows) ==
    [j \in 1..Len(rows[1]) |-> [squared |-> Variance(Column(rows, j))]]

RefitMean(mean, row) == [j \in 1..Len(row) |-> Frac(row[j], 1)]

\* tf.tensor1d(mean) and tf.tensor1d(std) of lines 445-446: predict takes
\* the parameters it is handed.
MeanTensor(mean, row) == mean

StdTensor(std, row) == std

\* featureTensor.sub(meanTensor).div(stdTensor.add(1e-7)) of line 448 (and
\* of line 400): per feature, the difference from the mean, to be divided
\* by the std plus 1e-7.
Normalize(row, mean, std) ==
    [j \in 1..Len(row) |->
        [difference |-> Frac(row[j] * mean[j].d - mean[j].n, mean[j].d),
         over       |-> std[j]]]

\* predict(model, mean, std, features): what is handed to model.predict.
predict(mean, std, row) ==
    Normalize(row, MeanTensor(mean, row), StdTensor(std, row))

FeatureValues == {0, 2, 5}

FeatureRows == {<<a, b>> : a \in FeatureValues, b \in FeatureValues}

ModelPredictions == {0 - 3000, 3000}

TrainingSets == UNION {SeqsOfLen(FeatureRows, n) : n \in 1..MaxRows}

TrainInit == HelperInit(TrainingSets)

\* Line 632: const { model, mean, std } = await trainNeuralNetwork(...).
TrainNeuralNetwork ==
    /\ pc = "helper"
    /\ fn = ""
    /\ fn' = "trainNeuralNetwork"
    /\ output' = [mean          |-> TrainingMean(args),
                  std           |-> TrainingStd(args),
                  normalized    |-> <<>>,
                  mlPredictions |-> <<>>]
    /\ UNCHANGED <<pc, numFridays, dayIdx, sessionHours, candles,
                   morningCandles, afternoonCandles, analysis, fridayData,
                   features, labels, mlPredictions, signals, args>>

\* One round of the loop of lines 637-641: predict the next row with the
\* mean and std of line 632.
PredictNextRow ==
    /\ pc = "helper"
    /\ fn \in {"trainNeuralNetwork", "predict"}
    /\ Len(output.mlPredictions) < Len(args)
    /\ \E pred \in ModelPredictions :
         LET i == Len(output.mlPredictions) + 1
         IN  output' =
               [output EXCEPT
                  !.normalized = Append(@, predict(output.mean, output.std,
                                                   args[i])),
                  !.mlPredictions = Append(@, pred)]
    /\ fn' = "predict"
    /\ UNCHANGED <<pc, numFridays, dayIdx, sessionHours, candles,
                   morningCandles, afternoonCandles, analysis, fridayData,
                   features, labels, mlPredictions, signals, args>>

TrainNext == TrainNeuralNetwork \/ PredictNextRow

TrainSpec == TrainInit /\ [][TrainNext]_vars

----------------------------------------------------------------------------
(* analyzeFriday on its own, applied to the candles of one day as they are *)
(* supplied, well formed or not.                                           *)

\* A candle whose low is below zero.
NegativeShape ==
    [open |-> 100 * One, high |-> 102 * One, low |-> 0 - One,
     close |-> 102 * One, volume |-> 10]

SuppliedPool ==
    CandlePool \cup {CandleOf(t, NegativeShape) : t \in Timestamps}

\* The candles of a day in the order the collection returns them.
SuppliedDays ==
    {cs \in UNION {SeqsOfLen(SuppliedPool, n) : n \in 0..MaxCandles} :
        \A i, j \in 1..Len(cs) : i # j => cs[i].timestamp # cs[j].timestamp}

DayInit == HelperInit(SuppliedDays)

\* const analysis = analyzeFriday(sessionDate, candles) of line 617.
CallAnalyzeFriday ==
    \E lib \in LibraryOutputs(Len(args)) :
        Call("analyzeFriday", analyzeFriday(1, args, lib))

DaySpec == DayInit /\ [][CallAnalyzeFriday]_vars

----------------------------------------------------------------------------
(* uploadToMongoDB of download_dax_dukascopy_5min.js.  The collection is   *)
(* the list of its documents; a document is a candle as                    *)
(* downloadDukascopyData transforms it.                                    *)

\* filter: { timestamp: doc.timestamp, interval: doc.interval }.
MatchesFilter(stored, doc) ==
    stored.timestamp = doc.timestamp /\ stored.interval = doc.interval

InsertOne(collection, doc) == Append(collection, doc)

\* updateOne with { $set: doc } and upsert: true (lines 188-194): the first
\* document the filter matches takes every field of doc; with no match doc
\* is inserted.
UpdateOne(collection, doc) ==
    IF \E k \in 1..Len(collection) : MatchesFilter(collection[k], doc)
    THEN LET first == CHOOSE k \in 1..Len(collection) :
                         /\ MatchesFilter(collection[k], doc)
                         /\ \A j \in 1..(k - 1) :
                                ~MatchesFilter(collection[j], doc)
         IN  [collection EXCEPT ![first] = doc]
    ELSE Append(collection, doc)

\* collection.bulkWrite(bulkOps) of line 196, one updateOne per document.
RECURSIVE BulkWrite(_, _, _)
BulkWrite(collection, data, n) ==
    IF n = 0 THEN collection
    ELSE UpdateOne(BulkWrite(collection, data, n - 1), data[n])

\* uploadToMongoDB(data): the collection afterwards.  No data returns at
\* once (lines 160-163).
uploadToMongoDB(collection, data) ==
    IF Len(data) = 0 THEN collection
    ELSE BulkWrite(collection, data, Len(data))

\* The documents of the upload checks: two 5-minute slots, two closes.
Documents ==
    {[timestamp |-> t, interval |-> "5m", close |-> c] :
        t \in {1, 2}, c \in {100, 101}}

\* What downloadDukascopyData can return: candles of distinct slots.
Batches ==
    {data \in UNION {SeqsOfLen(Documents, n) : n \in 0..MaxBatch} :
        \A i, j \in 1..Len(data) :
            i # j => data[i].timestamp # data[j].timestamp}

\* The collection starts empty; output lists the uploads made, each with
\* its data and the collection it left.
UploadInit == HelperInit({<<>>})

CollectionNow ==
    IF Len(output) = 0 THEN <<>> ELSE output[Len(output)].collection

CallUploadToMongoDB ==
    /\ pc = "helper"
    /\ Len(output) < MaxUploads
    /\ \E data \in Batches :
         output' = Append(output,
                          [data       |-> data,
                           collection |-> uploadToMongoDB(CollectionNow, data)])
    /\ fn' = "uploadToMongoDB"
    /\ UNCHANGED <<pc, numFridays, dayIdx, sessionHours, candles,
                   morningCandles, afternoonCandles, analysis, fridayData,
                   features, labels, mlPredictions, signals, args>>

UploadSpec == UploadInit /\ [][CallUploadToMongoDB]_vars

----------------------------------------------------------------------------
(* downloadDateRange of download_dax_dukascopy_5min.js.  A date is the     *)
(* number of days since 2023-01-01; the dates of the script are midnights  *)
(* (new Date("YYYY-MM-DD")), taken in UTC.                                 *)

IsLeapYear(year) ==
    (year % 4 = 0 /\ year % 100 # 0) \/ year % 400 = 0

DaysInYear(year) == IF IsLeapYear(year) THEN 366 ELSE 365

\* The length of a month; months count from 0 as Date.getMonth does.
DaysInMonth(year, month) ==
    IF month = 1 THEN (IF IsLeapYear(year) THEN 29 ELSE 28)
    ELSE IF month \in {3, 5, 8, 10} THEN 30
    ELSE 31

RECURSIVE DaysBeforeYear(_)
DaysBeforeYear(year) ==
    IF year <= 2023 THEN 0
    ELSE DaysBeforeYear(year - 1) + DaysInYear(year - 1)

RECURSIVE DaysBeforeMonth(_, _)
DaysBeforeMonth(year, month) ==
    IF month = 0 THEN 0
    ELSE DaysBeforeMonth(year, month - 1) + DaysInMonth(year, month - 1)

\* The date of a year, month and day of the month, as Date normalises
\* them: month 12 is January of the next year, and a day past the end of
\* the month runs on into the next month.
MakeDate(year, month, day) ==
    LET y == year + (month \div 12)
        m == month % 12
    IN  DaysBeforeYear(y) + DaysBeforeMonth(y, m) + (day - 1)

GetFullYear(date) ==
    CHOOSE year \in 2023..2026 :
        DaysBeforeYear(year) <= date /\ date < DaysBeforeYear(year + 1)

GetMonth(date) ==
    CHOOSE month \in 0..11 :
        /\ MakeDate(GetFullYear(date), month, 1) <= date
        /\ date < MakeDate(GetFullYear(date), month + 1, 1)

GetDate(date) == date - MakeDate(GetFullYear(date), GetMonth(date), 1) + 1

\* currentEnd.setMonth(currentEnd.getMonth() + 1) of line 248.
SetMonthPlusOne(date) ==
    MakeDate(GetFullYear(date), GetMonth(date) + 1, GetDate(date))

UncappedEnd(currentEnd, endDate) == currentEnd

\* The end of the chunk pushed by lines 250-254.
ChunkEnd(currentEnd, endDate) ==
    IF currentEnd > endDate THEN endDate ELSE currentEnd

CountedAlways(data, uploadCompleted) == Len(data)

\* What a chunk adds to totalCandles (lines 274-277): the addition follows
\* the upload, which may throw.
CountedCandles(data, uploadCompleted) ==
    IF uploadCompleted THEN Len(data) ELSE 0

\* The start dates of the ranges: 2023-01-01, 2023-01-29, 2023-01-31,
\* 2023-11-30, 2023-12-31, 2024-01-30, 2024-01-31, 2024-02-29, 2024-03-31.
RangeStarts ==
    {MakeDate(2023, 0, 1), MakeDate(2023, 0, 29), MakeDate(2023, 0, 31),
     MakeDate(2023, 10, 30), MakeDate(2023, 11, 31), MakeDate(2024, 0, 30),
     MakeDate(2024, 0, 31), MakeDate(2024, 1, 29), MakeDate(2024, 2, 31)}

\* The length of a range in days; a negative length is an end before the
\* start.
RangeLengths == {0 - 5, 0, 1, 28, 31, 59, 62, 90}

DateRanges ==
    {r \in [start : RangeStarts, end : 0..(MakeDate(2024, 11, 31))] :
        r.end - r.start \in RangeLengths}

\* The candles downloadDukascopyData returns for a chunk: `size` candles
\* of distinct 5-minute slots of the chunk.
ChunkData(chunk, size) ==
    [k \in 1..size |->
        [timestamp |-> <<chunk.start, k>>, interval |-> "5m", close |-> 100]]

DownloadInit ==
    /\ pc = "while"
    /\ numFridays = 0
    /\ dayIdx = 1
    /\ sessionHours = <<>>
    /\ candles = <<>>
    /\ morningCandles = <<>>
    /\ afternoonCandles = <<>>
    /\ analysis = <<>>
    /\ fridayData = <<>>
    /\ features = <<>>
    /\ labels = <<>>
    /\ mlPredictions = <<>>
    /\ signals = <<>>
    /\ fn = "downloadDateRange"
    /\ args \in DateRanges
    /\ output = [chunks       |-> <<>>,
                 currentStart |-> args.start,
                 i            |-> 0,
                 totalCandles |-> 0,
                 collection   |-> <<>>,
                 events       |-> <<>>,
                 uploaded     |-> <<>>]

DownloadUnchanged ==
    UNCHANGED <<numFridays, dayIdx, sessionHours, candles, morningCandles,
                afternoonCandles, analysis, fridayData, features, labels,
                mlPredictions, signals, fn, args>>

\* One round of the while loop of lines 246-257.
PushChunk ==
    /\ pc = "while"
    /\ output.currentStart < args.end
    /\ LET currentEnd == SetMonthPlusOne(output.currentStart)
       IN  output' =
             [output EXCEPT
                !.chunks = Append(@, [start |-> output.currentStart,
                                      end   |-> ChunkEnd(currentEnd, args.end)]),
                !.currentStart = currentEnd]
    /\ pc' = pc
    /\ DownloadUnchanged

\* The while loop ends; lines 259-261.
StartChunkLoop ==
    /\ pc = "while"
    /\ ~(output.currentStart < args.end)
    /\ pc' = "for"
    /\ output' = output
    /\ DownloadUnchanged

\* setTimeout(resolve, 1000) of lines 280-282, reached only at the end of
\* the try block and not after the last chunk.
WaitAfter(index) ==
    IF index < Len(output.chunks) THEN <<[event |-> "wait", ms |-> 1000]>>
    ELSE <<>>

Request(index) == <<[event |-> "download", chunk |-> index]>>

\* One round of the for loop (lines 263-288) in which downloadDukascopyData
\* throws: the catch logs the error and the loop goes on.
ChunkDownloadFails ==
    /\ pc = "for"
    /\ output.i < Len(output.chunks)
    /\ output' = [output EXCEPT
                    !.i = @ + 1,
                    !.events = @ \o Request(output.i + 1)]
    /\ pc' = pc
    /\ DownloadUnchanged

\* A round in which the chunk has no data: nothing is uploaded.
ChunkEmpty ==
    /\ pc = "for"
    /\ output.i < Len(output.chunks)
    /\ output' = [output EXCEPT
                    !.i = @ + 1,
                    !.events = @ \o Request(output.i + 1)
                                 \o WaitAfter(output.i + 1)]
    /\ pc' = pc
    /\ DownloadUnchanged

\* A round in which uploadToMongoDB throws, after `written` of the chunk's
\* candles have reached the collection.
ChunkUploadFails ==
    /\ pc = "for"
    /\ output.i < Len(output.chunks)
    /\ \E size \in 1..MaxBatch, written \in 0..MaxBatch :
         /\ written <= size
         /\ LET data == ChunkData(output.chunks[output.i + 1], size)
            IN  output' =
                  [output EXCEPT
                     !.i = @ + 1,
                     !.events = @ \o Request(output.i + 1),
                     !.collection =
                         uploadToMongoDB(@, SubSeq(data, 1, written)),
                     !.totalCandles = @ + CountedCandles(data, FALSE)]
    /\ pc' = pc
    /\ DownloadUnchanged

\* A round in which the chunk is downloaded and uploaded.
ChunkUploaded ==
    /\ pc = "for"
    /\ output.i < Len(output.chunks)
    /\ \E size \in 1..MaxBatch :
         LET data == ChunkData(output.chunks[output.i + 1], size)
         IN  output' =
               [output EXCEPT
                  !.i = @ + 1,
                  !.events = @ \o Request(output.i + 1)
                               \o WaitAfter(output.i + 1),
                  !.collection = uploadToMongoDB(@, data),
                  !.totalCandles = @ + CountedCandles(data, TRUE),
                  !.uploaded = Append(@, [chunk |-> output.i + 1,
                                          data  |-> data])]
    /\ pc' = pc
    /\ DownloadUnchanged

\* The for loop ends; the summary of lines 290-294.
DownloadSummary ==
    /\ pc = "for"
    /\ ~(output.i < Len(output.chunks))
    /\ pc' = "done"
    /\ output' = output
    /\ DownloadUnchanged

\* The month-by-month loop of the shell script download_year_data.sh
\* (lines 18-56).  last_day of lines 19-31; months count from 1.
LastDay(year, month) ==
    IF month = 2
    THEN (IF year % 4 = 0 /\ (year % 100 # 0 \/ year % 400 = 0)
          THEN 29 ELSE 28)
    ELSE IF month \in {4, 6, 9, 11} THEN 30
    ELSE 31

YearInit ==
    /\ pc = "months"
    /\ numFridays = 0
    /\ dayIdx = 1
    /\ sessionHours = <<>>
    /\ candles = <<>>
    /\ morningCandles = <<>>
    /\ afternoonCandles = <<>>
    /\ analysis = <<>>
    /\ fridayData = <<>>
    /\ features = <<>>
    /\ labels = <<>>
    /\ mlPredictions = <<>>
    /\ signals = <<>>
    /\ fn = "download_year_data.sh"
    /\ args \in [year : {2023, 2024}]
    /\ output = [month |-> 0, events |-> <<>>, saved |-> <<>>]

\* The request of lines 39-44 for the month after output.month, followed
\* by the sleep of line 55.
MonthRequest ==
    <<[event |-> "download",
       from  |-> <<args.year, output.month + 1, 1>>,
       to    |-> <<args.year, output.month + 1,
                   LastDay(args.year, output.month + 1)>>],
      [event |-> "wait", ms |-> 2000]>>

\* One round of the loop in which node exits with status 0: the month's
\* file is saved (lines 46-47).
MonthSaved ==
    /\ pc = "months"
    /\ output.month < 12
    /\ output' = [output EXCEPT
                    !.month = @ + 1,
                    !.events = @ \o MonthRequest,
                    !.saved = Append(@, output.month + 1)]
    /\ pc' = pc
    /\ DownloadUnchanged

\* A round in which node fails: the failure is reported (lines 48-50) and
\* the loop goes on.
MonthFails ==
    /\ pc = "months"
    /\ output.month < 12
    /\ output' = [output EXCEPT
                    !.month = @ + 1,
                    !.events = @ \o MonthRequest]
    /\ pc' = pc
    /\ DownloadUnchanged

\* Lines 56-58: the loop is over.
YearComplete ==
    /\ pc = "months"
    /\ output.month = 12
    /\ pc' = "done"
    /\ output' = output
    /\ DownloadUnchanged

DownloadNext ==
    \/ PushChunk
    \/ StartChunkLoop
    \/ ChunkDownloadFails
    \/ ChunkEmpty
    \/ ChunkUploadFails
    \/ ChunkUploaded
    \/ DownloadSummary
    \/ MonthSaved
    \/ MonthFails
    \/ YearComplete

DownloadSpec == (DownloadInit \/ YearInit) /\ [][DownloadNext]_vars

----------------------------------------------------------------------------
(* The best-entry analysis of analyzeMondayEntries (lines 164-345 of       *)
(* analyze_monday_entries.js), for one Monday.  Prices are whole points.   *)

LowestHigh(firstHourCandles) ==
    SetMin({firstHourCandles[i].high : i \in 1..Len(firstHourCandles)})

\* let bestShortEntry = firstHourHigh (line 287), never assigned again.
BestShortEntry(firstHourCandles) ==
    SetMax({firstHourCandles[i].high : i \in 1..Len(firstHourCandles)})

\* The lows of the first-hour candles that undercut the candle before
\* (lines 290-296).
Pullbacks(firstHourCandles) ==
    {firstHourCandles[i].low : i \in
        {j \in 2..Len(firstHourCandles) :
            firstHourCandles[j].low < firstHourCandles[j - 1].low}}

\* bestLongEntry (lines 286-300): the first hour's low, or on a bullish day
\* with pullbacks the highest of them.
BestLongEntry(firstHourCandles, bullishDay) ==
    IF bullishDay /\ Pullbacks(firstHourCandles) # {}
    THEN SetMax(Pullbacks(firstHourCandles))
    ELSE SetMin({firstHourCandles[i].low : i \in 1..Len(firstHourCandles)})

\* risk > 0 ? reward / risk : 0 (lines 305 and 309).
RewardToRisk(reward, risk) ==
    IF risk > 0 THEN Frac(reward, risk) ELSE Frac(0, 1)

\* The entry pushed for a Monday (lines 311-345), <<>> for a day of fewer
\* than 12 candles (line 169); of the entry's fields, those of the best
\* entries.
EntryAnalysis(date, cs) ==
    IF Len(cs) < 12 THEN <<>>
    ELSE
    LET firstCandle      == cs[1]
        lastCandle       == cs[Len(cs)]
        firstHourCandles == SubSeq(cs, 1, Min2(CANDLES_PER_HOUR, Len(cs)))
        firstHourHigh    == SetMax({firstHourCandles[i].high :
                                       i \in 1..Len(firstHourCandles)})
        firstHourLow     == SetMin({firstHourCandles[i].low :
                                       i \in 1..Len(firstHourCandles)})
        dailyHigh        == SetMax({cs[i].high : i \in 1..Len(cs)})
        dailyLow         == SetMin({cs[i].low : i \in 1..Len(cs)})
        bullishDay       == lastCandle.close - firstCandle.open > 0
        bestLongEntry    == BestLongEntry(firstHourCandles, bullishDay)
        bestShortEntry   == BestShortEntry(firstHourCandles)
        longReward       == dailyHigh - bestLongEntry
        longRisk         == bestLongEntry - firstHourLow
        shortReward      == bestShortEntry - dailyLow
        shortRisk        == firstHourHigh - bestShortEntry
    IN  <<[date           |-> date,
           bullishDay     |-> bullishDay,
           bestLongEntry  |-> bestLongEntry,
           bestShortEntry |-> bestShortEntry,
           longReward     |-> longReward,
           longRisk       |-> longRisk,
           longRR         |-> RewardToRisk(longReward, longRisk),
           shortReward    |-> shortReward,
           shortRisk      |-> shortRisk,
           shortRR        |-> RewardToRisk(shortReward, shortRisk)]>>

\* The candles of the entry checks, each with its low at or below its open
\* and close and its high at or above them.
EntryShapes ==
    {[open |-> 101, high |-> 103, low |-> 100, close |-> 102, volume |-> 10],
     [open |-> 101, high |-> 102, low |-> 99, close |-> 100, volume |-> 10],
     [open |-> 101, high |-> 104, low |-> 98, close |-> 103, volume |-> 10],
     [open |-> 100, high |-> 100, low |-> 100, close |-> 100, volume |-> 10]}

\* A Monday: `opening` candles, then quiet candles up to `length` candles,
\* then the candles of `closing`.
EntryDay(opening, length, closing) ==
    opening
    \o [i \in 1..(length - Len(opening)) |->
           [open |-> 101, high |-> 102, low |-> 100, close |-> 101,
            volume |-> 10]]
    \o closing

EntryDays ==
    {EntryDay(opening, length, closing) :
        opening \in SeqsOfLen(EntryShapes, MaxOpening),
        length  \in {CANDLES_PER_HOUR - 1, CANDLES_PER_HOUR},
        closing \in SeqsOfLen(EntryShapes, 0) \cup SeqsOfLen(EntryShapes, 1)}

EntryInit == HelperInit(EntryDays)

CallAnalyzeMondayEntries ==
    Call("analyzeMondayEntries", EntryAnalysis(1, args))

EntrySpec == EntryInit /\ [][CallAnalyzeMondayEntries]_vars

----------------------------------------------------------------------------

Next ==
    \/ AnalyzeNextFriday
    \/ BuildDataset
    \/ TrainAndPredict
    \/ GenerateSignals
    \/ Report

Spec == Init /\ [][Next]_vars

\* The segmenter on its own: analyzeFriday applied to one day's candles.
SegmentInit == Init /\ numFridays = 1

SegmentSpec == SegmentInit /\ [][AnalyzeNextFriday]_vars

----------------------------------------------------------------------------
(* Properties of the pipeline (under Spec) and of the session segmenter   *)
(* (under SegmentSpec).                                                    *)

InSeq(x, seq) == \E k \in 1..Len(seq) : seq[k] = x

\* The UTC hour of a candle, from its timestamp in minutes.
HourOf(c) == (c.timestamp \div 60) % 24

\* A day is complete when Mongo returned a candle of an hour in [8,10) and
\* a candle of an hour in [10,22).
CompleteHours(hours) ==
    /\ \E h \in hours : 8 <= h /\ h < 10
    /\ \E h \in hours : 10 <= h /\ h < 22

\* The session dates analysed so far whose day was complete.
CompleteDates == {d \in 1..Len(sessionHours) : CompleteHours(sessionHours[d])}

\* C1: a day whose morning slice or afternoon slice is empty is excluded
\* from everything downstream: analyzeFriday returns null for it, and at
\* every point of the run fridayData (which the statistics are taken from)
\* holds no entry of that date, no signal carries that date, and the
\* feature rows, labels and predictions number at most the complete days.
C1_IncompleteDayExcluded ==
    /\ \A d \in (1..Len(sessionHours)) \ CompleteDates :
          /\ (pc = "analyze" /\ d = Len(sessionHours)) => analysis = <<>>
          /\ \A i \in 1..Len(fridayData) : fridayData[i].date # d
          /\ \A i \in 1..Len(signals) : signals[i].date # d
    /\ Len(fridayData) = Cardinality(CompleteDates)
    /\ Len(features) <= Cardinality(CompleteDates)
    /\ Len(labels) <= Cardinality(CompleteDates)
    /\ Len(mlPredictions) <= Cardinality(CompleteDates)

\* C1's case: a finished run with signals in which one day had candles but
\* was incomplete.
C1_Witness ==
    /\ pc = "done"
    /\ Len(signals) > 0
    /\ \E d \in 1..Len(sessionHours) :
          sessionHours[d] # {} /\ ~CompleteHours(sessionHours[d])

\* C9: a candle of the day is in the morning slice exactly when its UTC
\* hour h has 8 <= h < 10, in the afternoon slice exactly when
\* 10 <= h < 22, and never in both; the slices hold candles of the day only.
C9_CandlePlacement ==
    /\ \A k \in 1..Len(candles) :
          LET c == candles[k]
              h == HourOf(c)
          IN  /\ InSeq(c, morningCandles) <=> (8 <= h /\ h < 10)
              /\ InSeq(c, afternoonCandles) <=> (10 <= h /\ h < 22)
              /\ ~(InSeq(c, morningCandles) /\ InSeq(c, afternoonCandles))
    /\ \A k \in 1..Len(morningCandles) : InSeq(morningCandles[k], candles)
    /\ \A k \in 1..Len(afternoonCandles) : InSeq(afternoonCandles[k], candles)

\* C9's case: a day with a morning candle, an afternoon candle and a candle
\* that is dropped.
C9_Witness ==
    /\ Len(candles) = 3
    /\ Len(morningCandles) = 1
    /\ Len(afternoonCandles) = 1

\* C10: when every candle of the day (sorted ascending by timestamp, as
\* analyzeFriday leaves them) has its UTC hour in [8,22), the morning slice
\* followed by the afternoon slice is the day's candle sequence.
C10_PartitionLaw ==
    (/\ \A k \in 1..Len(candles) : 8 <= HourOf(candles[k]) /\ HourOf(candles[k]) < 22
     /\ \A j, k \in 1..Len(candles) :
           j < k => candles[j].timestamp <= candles[k].timestamp)
    => morningCandles \o afternoonCandles = candles

\* C10's case: three candles, all within [8,22), on both sides of 10:00.
C10_Witness ==
    /\ Len(candles) = 3
    /\ \A k \in 1..Len(candles) : 8 <= HourOf(candles[k]) /\ HourOf(candles[k]) < 22
    /\ Len(morningCandles) > 0
    /\ Len(afternoonCandles) > 0

----------------------------------------------------------------------------
(* Properties of generateTradingSignals (under SignalSpec).  They are     *)
(* stated on the day records and predictions it was given and the records  *)
(* it pushed, with the thresholds written out.                             *)

\* The positions in `signals` of the records of date d.
SignalsOf(d) == {i \in 1..Len(signals) : signals[i].date = d}

\* The day record a signal was made from.
DayOf(s) == CHOOSE d \in 1..Len(fridayData) : fridayData[d].date = s.date

\* A field written with toFixed(2) shows h hundredths for the non-negative
\* fixed-point number x: x rounded to two decimals, halves up.
Rendered(h, x) == x - 100 * h \in (0 - 50)..49

\* The same for the number x2 / 2.
RenderedHalf(h, x2) == x2 - 200 * h \in (0 - 100)..99

MorningUp(day) == day.morning.close > day.morning.open

MorningDown(day) == day.morning.close < day.morning.open

\* The morning percent move is above 0.2 / below -0.2.
MorningRally(day) ==
    (day.morning.close - day.morning.open) * 1000 > 2 * day.morning.open

MorningDrop(day) ==
    (day.morning.close - day.morning.open) * 1000 < 0 - 2 * day.morning.open

AboveVWAP(day) == FracGT(Frac(day.morning.close, 1), day.morning.vwap)

\* The RSI the rules read: the neutral 50 where the reading is absent, and
\* also where it is 0 (line 467).
RuleRsi(day) ==
    IF day.morning.rsi = <<>> \/ day.morning.rsi = <<0>>
    THEN 50 ELSE day.morning.rsi[1]

\* The kind and side of the first rule, in the order trend LONG, trend
\* SHORT, reversal LONG, reversal SHORT, whose condition holds.
FirstMatch(day, p) ==
    IF p > 1000 /\ MorningUp(day) /\ day.morning.priceVsVWAP > 0
    THEN <<"trend", "LONG">>
    ELSE IF p < 0 - 1000 /\ MorningDown(day) /\ day.morning.priceVsVWAP < 0
    THEN <<"trend", "SHORT">>
    ELSE IF p > 1500 /\ MorningDrop(day) /\ RuleRsi(day) < 40
    THEN <<"reversal", "LONG">>
    ELSE IF p < 0 - 1500 /\ MorningRally(day) /\ RuleRsi(day) > 60
    THEN <<"reversal", "SHORT">>
    ELSE <<"none", "">>

\* The kind and side a pushed record shows.
EmittedRule(s) ==
    <<IF s.reasoning[1] = "ML predicts reversal" THEN "reversal" ELSE "trend",
      s.signal>>

\* C2: the rules are tried in the order trend LONG, trend SHORT, reversal
\* LONG, reversal SHORT and the first whose condition holds decides the
\* signal: each day has at most one record, of the kind and side of the
\* first matching rule, and a day on which no rule matches has none; the
\* records come in the order of the days.
C2_FirstMatchDecides ==
    pc = "report" =>
        /\ \A d \in 1..Len(fridayData) :
              LET S    == SignalsOf(fridayData[d].date)
                  want == FirstMatch(fridayData[d], mlPredictions[d])
              IN  /\ Cardinality(S) <= 1
                  /\ want[1] = "none" => S = {}
                  /\ want[1] # "none" =>
                        \E i \in S : EmittedRule(signals[i]) = want
        /\ \A i, j \in 1..Len(signals) :
              i < j => signals[i].date < signals[j].date
        /\ \A i \in 1..Len(signals) :
              \E d \in 1..Len(fridayData) : fridayData[d].date = signals[i].date

\* C2's case: two days were processed; the first got a reversal signal
\* (the third rule of the chain), the second matched no rule.
C2_Witness ==
    /\ pc = "report"
    /\ Len(fridayData) = 2
    /\ Len(signals) = 1
    /\ signals[1].date = fridayData[1].date
    /\ EmittedRule(signals[1])[1] = "reversal"
    /\ FirstMatch(fridayData[2], mlPredictions[2])[1] = "none"

\* min(95, 50 + 10|p| + (10 if RSI < 70) + 10) for the day, an absent RSI
\* counting as the neutral 50.
TrendLongConfidence(day, p) ==
    LET bonus == IF day.morning.rsi = <<>> \/ day.morning.rsi[1] < 70
                 THEN 10 * One ELSE 0
        sum   == 50 * One + 10 * p + bonus + 10 * One
    IN  IF sum > 95 * One THEN 95 * One ELSE sum

\* The example: open 100, close 102, RSI 45, price above VWAP, prediction
\* +0.3.
IsExampleDay(day, p) ==
    /\ day.morning.open = 100 * One
    /\ day.morning.close = 102 * One
    /\ day.morning.rsi = <<45>>
    /\ AboveVWAP(day)
    /\ p = 3000

\* C3: a day with prediction > 0.1, morning percent move > 0 and morning
\* close above VWAP gets a LONG signal whose confidence field is
\* min(95, 50 + 10|p| + (10 if RSI < 70 else 0) + 10) written with two
\* decimals; for open 100, close 102, RSI 45, price above VWAP and
\* prediction +0.3 the signal is LONG with confidence at least 70.
C3_TrendLongConfidence ==
    pc = "report" =>
        \A d \in 1..Len(fridayData) :
            LET day == fridayData[d]
                p   == mlPredictions[d]
            IN  /\ (p > 1000 /\ MorningUp(day) /\ AboveVWAP(day)) =>
                      /\ SignalsOf(day.date) # {}
                      /\ \A i \in SignalsOf(day.date) :
                            /\ signals[i].signal = "LONG"
                            /\ Rendered(signals[i].confidence,
                                        TrendLongConfidence(day, p))
                /\ IsExampleDay(day, p) =>
                      \E i \in SignalsOf(day.date) :
                          /\ signals[i].signal = "LONG"
                          /\ signals[i].confidence >= 70 * 100

\* C3's case: the example day has been processed and has its record.
C3_Witness ==
    /\ pc = "report"
    /\ \E d \in 1..Len(fridayData) :
          /\ IsExampleDay(fridayData[d], mlPredictions[d])
          /\ \E i \in SignalsOf(fridayData[d].date) : signals[i].signal = "LONG"

\* |a - b|.
Dist(a, b) == IF a < b THEN b - a ELSE a - b

\* C4: in every record, entry is the morning close, stopLoss the morning
\* low for a LONG and the morning high for a SHORT, and target is
\* entry + m * |entry - stopLoss| for a LONG, entry - m * |entry - stopLoss|
\* for a SHORT, with m = 3 for a trend signal and m = 2.5 for a reversal
\* signal; each field is written with two decimals.
C4_StopAndTarget ==
    pc = "report" =>
        \A i \in 1..Len(signals) :
            LET s     == signals[i]
                day   == fridayData[DayOf(s)]
                entry == day.morning.close
                stop  == IF s.signal = "LONG" THEN day.morning.low
                         ELSE day.morning.high
                m2    == IF EmittedRule(s)[1] = "reversal" THEN 5 ELSE 6
            IN  /\ s.signal \in {"LONG", "SHORT"}
                /\ Rendered(s.entry, entry)
                /\ Rendered(s.stopLoss, stop)
                /\ s.signal = "LONG" =>
                      RenderedHalf(s.target, 2 * entry + m2 * Dist(entry, stop))
                /\ s.signal = "SHORT" =>
                      RenderedHalf(s.target, 2 * entry - m2 * Dist(entry, stop))

\* C4's case: a reversal signal and a trend signal, one LONG and one SHORT,
\* with stops away from the entry.
C4_Witness ==
    /\ pc = "report"
    /\ \E i, j \in 1..Len(signals) :
          /\ EmittedRule(signals[i])[1] = "reversal"
          /\ EmittedRule(signals[j])[1] = "trend"
          /\ signals[i].signal # signals[j].signal
          /\ signals[i].stopLoss # signals[i].entry
          /\ signals[j].stopLoss # signals[j].entry

\* C5: the outcome of a record is WIN exactly when it is a LONG and the
\* afternoon percent move is > 0 or a SHORT and the afternoon percent move
\* is < 0, and LOSS otherwise, an afternoon move of exactly 0 included.
C5_Outcome ==
    pc = "report" =>
        \A i \in 1..Len(signals) :
            LET s    == signals[i]
                aft  == fridayData[DayOf(s)].afternoon
                up   == aft.close > aft.open
                down == aft.close < aft.open
            IN  /\ s.outcome \in {"WIN", "LOSS"}
                /\ s.outcome = "WIN" <=>
                      \/ s.signal = "LONG" /\ up
                      \/ s.signal = "SHORT" /\ down

\* C5's case: a record of a day with a flat afternoon, which is a LOSS,
\* next to a WIN.
C5_Witness ==
    /\ pc = "report"
    /\ \E i, j \in 1..Len(signals) :
          /\ fridayData[DayOf(signals[i])].afternoon.close
                = fridayData[DayOf(signals[i])].afternoon.open
          /\ signals[i].outcome = "LOSS"
          /\ signals[j].outcome = "WIN"

\* The mirrored inputs of a day: -m, -v, 100 - r (an absent reading stays
\* absent), high and low reflected around the close.
Mirror(day) ==
    [day EXCEPT
        !.morning.movePercent = Frac(0 - @.n, @.d),
        !.morning.move = 0 - @,
        !.morning.open = 2 * day.morning.close - @,
        !.morning.priceVsVWAP = 0 - @,
        !.morning.rsi = IF @ = <<>> THEN <<>> ELSE <<100 - @[1]>>,
        !.morning.high = 2 * day.morning.close - day.morning.low,
        !.morning.low = 2 * day.morning.close - day.morning.high]

\* The record the generator makes of one day alone, as a set.
RecordsFor(day, p) ==
    {generateTradingSignals(<<day>>, <<p>>)[i] :
        i \in 1..Len(generateTradingSignals(<<day>>, <<p>>))}

\* C6: the SHORT rules mirror the LONG rules: a day gets a SHORT signal of
\* a rule kind exactly when the mirrored inputs (-p, -m, -v, 100 - r, high
\* and low reflected around the close) get a LONG signal of that kind, and
\* the two have the same confidence, risk and reward.
C6_ShortMirrorsLong ==
    pc = "report" =>
        \A d \in 1..Len(fridayData) :
            LET day     == fridayData[d]
                p       == mlPredictions[d]
                shorts  == {signals[i] : i \in
                               {j \in SignalsOf(day.date) :
                                   signals[j].signal = "SHORT"}}
                longs   == {t \in RecordsFor(Mirror(day), 0 - p) :
                               t.signal = "LONG"}
            IN  /\ shorts # {} <=> longs # {}
                /\ \A s \in shorts : \E t \in longs :
                      /\ EmittedRule(t)[1] = EmittedRule(s)[1]
                      /\ t.confidence = s.confidence
                      /\ t.risk = s.risk
                      /\ t.reward = s.reward

\* C6's case: a morning RSI of 100 with a rally and a bearish prediction: a
\* reversal SHORT is emitted; the mirrored inputs have an RSI of 0.
C6_Witness ==
    /\ pc = "report"
    /\ \E d \in 1..Len(fridayData) :
          /\ fridayData[d].morning.rsi = <<100>>
          /\ \E i \in SignalsOf(fridayData[d].date) :
                EmittedRule(signals[i]) = <<"reversal", "SHORT">>

\* min(90, 55 + 8|p|) for a positive prediction.
ReversalLongConfidence(p) ==
    IF 55 * One + 8 * p > 90 * One THEN 90 * One ELSE 55 * One + 8 * p

\* C7: a day on which neither trend rule matches, with prediction > 0.15,
\* morning percent move < -0.2 and morning RSI < 40, gets a LONG reversal
\* signal with confidence min(90, 55 + 8|p|) (written with two decimals);
\* the confidence of every reversal signal is at most 90.
C7_ReversalLong ==
    pc = "report" =>
        /\ \A d \in 1..Len(fridayData) :
              LET day == fridayData[d]
                  p   == mlPredictions[d]
              IN  (/\ ~(p > 1000 /\ MorningUp(day) /\ day.morning.priceVsVWAP > 0)
                   /\ ~(p < 0 - 1000 /\ MorningDown(day)
                           /\ day.morning.priceVsVWAP < 0)
                   /\ p > 1500
                   /\ MorningDrop(day)
                   /\ day.morning.rsi # <<>>
                   /\ day.morning.rsi[1] < 40)
                  => \E i \in SignalsOf(day.date) :
                        /\ EmittedRule(signals[i]) = <<"reversal", "LONG">>
                        /\ Rendered(signals[i].confidence,
                                    ReversalLongConfidence(p))
        /\ \A i \in 1..Len(signals) :
              EmittedRule(signals[i])[1] = "reversal" =>
                  signals[i].confidence <= 90 * 100

\* C7's case: a morning RSI of 0 after a drop of 2%, with a prediction of
\* +0.3 and the price not above VWAP after a falling morning.
C7_Witness ==
    /\ pc = "report"
    /\ \E d \in 1..Len(fridayData) :
          /\ fridayData[d].morning.rsi = <<0>>
          /\ MorningDrop(fridayData[d])
          /\ mlPredictions[d] = 3000

----------------------------------------------------------------------------
(* Properties of calculateStats (under StatsSpec). *)

\* The element at position k, counted from 0, of the sample in ascending
\* order: fewer than k + 1 elements lie below it, at least k + 1 at or
\* below it.
RankElement(sample, k) ==
    CHOOSE v \in {sample[i] : i \in 1..Len(sample)} :
        /\ Cardinality({i \in 1..Len(sample) : sample[i] < v}) <= k
        /\ Cardinality({i \in 1..Len(sample) : sample[i] <= v}) > k

\* What a version of calculateStats returned as the three quartiles, as
\* fractions (q1 and q3 are the Friday script's names of q25 and q75).
ReturnedQuartiles ==
    IF fn = "calculateStats_Friday"
    THEN <<output[1].q1, output[1].median, output[1].q3>>
    ELSE <<Frac(output.q25[1], 1), Frac(output.median[1], 1),
           Frac(output.q75[1], 1)>>

\* C11: for a non-empty sample of n numbers calculateStats returns as q25,
\* median and q75 the elements at the positions floor(0.25 n), floor(0.5 n)
\* and floor(0.75 n), counted from 0, of the sample in ascending order; for
\* the sample 1..10 these are 3, 6 and 8.
C11_NearestRankQuartiles ==
    (fn # "" /\ Len(args) > 0) =>
        /\ \A q \in 1..3 :
              ReturnedQuartiles[q].n =
                 RankElement(args, (Len(args) * q) \div 4) * ReturnedQuartiles[q].d
        /\ Len(args) = 10 =>
              ReturnedQuartiles = <<Frac(3, 1), Frac(6, 1), Frac(8, 1)>>

\* C11's case: the Friday script's calculateStats has been given 1..10.
C11_Witness ==
    /\ fn = "calculateStats_Friday"
    /\ args = [i \in 1..10 |-> i]
    /\ output # <<>>

----------------------------------------------------------------------------
(* Properties of the predictive accuracy and of the direction alignment. *)

\* The sign of a number: -1, 0 or 1.
Sign(x) == IF x < 0 THEN 0 - 1 ELSE IF x > 0 THEN 1 ELSE 0

\* The first-hour move and the full-day move of a Monday's candles.
FirstHourMove(cs) ==
    cs[IF Len(cs) < 12 THEN Len(cs) ELSE 12].close - cs[1].open

DayMove(cs) == cs[Len(cs)].close - cs[1].open

\* C12: when on every analysed day the sign (negative, zero or positive)
\* of the first-hour move equals the sign of the full-day move, the
\* predictive accuracy the Monday patterns script reports is 100%.
C12_AlignedDaysFullAccuracy ==
    (/\ fn = "analyzeMondayPatterns"
     /\ Len(args) > 0
     /\ \A i \in 1..Len(args) :
           Sign(FirstHourMove(args[i])) = Sign(DayMove(args[i])))
    => output[1].predictionAccuracy = 100 * 100

\* C12's case: two Mondays, one whose first hour and day both end at the
\* open and one whose first hour and day both rise.
C12_Witness ==
    /\ fn = "analyzeMondayPatterns"
    /\ Len(args) = 2
    /\ \E i, j \in 1..2 :
          /\ FirstHourMove(args[i]) = 0 /\ DayMove(args[i]) = 0
          /\ FirstHourMove(args[j]) > 0 /\ DayMove(args[j]) > 0

\* C13: for every analysed day, morningAfternoonAlign is true exactly when
\* the sign of the morning percent move equals the sign of the afternoon
\* percent move, and morningDayAlign exactly when it equals the sign of the
\* full-day percent move, the sign being negative, zero or positive.
C13_AlignIsSignEquality ==
    \A d \in 1..Len(fridayData) :
        LET f == fridayData[d]
        IN  /\ f.morningAfternoonAlign <=>
                  Sign(f.morning.movePercent.n) = Sign(f.afternoon.movePercent.n)
            /\ f.morningDayAlign <=>
                  Sign(f.morning.movePercent.n) = Sign(f.day.movePercent.n)

\* C13's case: a day whose morning ends where it began and whose afternoon
\* falls.
C13_Witness ==
    \E d \in 1..Len(fridayData) :
        /\ fridayData[d].morning.close = fridayData[d].morning.open
        /\ fridayData[d].afternoon.close < fridayData[d].afternoon.open

----------------------------------------------------------------------------
(* Claims about the indicator functions, under IndicatorSpec.              *)

IndicatorFunctions ==
    {"calculateVWAP", "calculateVWAP_Monday", "calculateEMA", "calculateRSI",
     "calculateEMA_Friday", "calculateRSI_Friday", "calculateBollingerBands",
     "calculateATR", "calculateMACD", "calculateStochastic"}

\* C14: every indicator function returns a series with exactly as many
\* entries as its input series has, for every input length, inputs longer
\* than the period (where the RSI has warmed up) included.
C14_SeriesKeepsInputLength ==
    fn \in IndicatorFunctions => Len(output) = Len(args.candles)

\* C14's case: calculateRSI has been given more prices than period + 1, so
\* that it has left its warm-up.
C14_Witness ==
    /\ fn = "calculateRSI"
    /\ Len(args.candles) > args.period + 1

----------------------------------------------------------------------------
(* Claims about readings the indicators have not produced yet, under Spec. *)

\* The feature a day's row holds at `position` is a number.
FeatureIsNumber(day, position) == features[day][position] \in Int

\* C15: an indicator reading that is still "no value" at the morning
\* boundary (RSI, EMA20, EMA50, MACD, Stochastic not yet defined) is never
\* replaced by 0 or any other number: it is excluded from every feature and
\* comparison that depends on it, so the day's feature row holds no number
\* where the reading would go.
C15_NoValueNeverCoerced ==
    \A d \in 1..Len(features) :
        LET morning == fridayData[d].morning
        IN  /\ morning.rsi = <<>> => ~FeatureIsNumber(d, 4)
            /\ morning.ema20 = <<>> => ~FeatureIsNumber(d, 6)
            /\ morning.ema50 = <<>> => ~FeatureIsNumber(d, 7)
            /\ morning.macd = <<>> =>
                   ~FeatureIsNumber(d, 9) /\ ~FeatureIsNumber(d, 10)
            /\ morning.stoch = <<>> =>
                   ~FeatureIsNumber(d, 11) /\ ~FeatureIsNumber(d, 12)

\* C15's case: the feature rows have been built and the first day's RSI at
\* the morning boundary is "no value".
C15_Witness ==
    /\ Len(features) >= 1
    /\ fridayData[1].morning.rsi = <<>>

----------------------------------------------------------------------------
(* Claims about calculateRSI of analyze_monday_entries.js, under           *)
(* IndicatorSpec.                                                          *)

\* The running average loss behind entry k (counted from 1, k >= 2) of the
\* result is 0: none of the changes up to it is a fall.
NoLossAt(k) ==
    AvgLossNumerator(Changes(Closes(args.candles)), args.period,
                     args.period + k - 1) = 0

\* C16: when the running average loss is 0 at a defined RSI position (the
\* prices never fell over the smoothing window), calculateRSI returns
\* exactly 100 at that position.
C16_NoLossGivesHundred ==
    (fn = "calculateRSI" /\ Len(args.candles) >= args.period + 1) =>
        \A k \in 2..Len(output) :
            NoLossAt(k) => FracEQ(output[k], Frac(100, 1))

\* C16's case: calculateRSI has computed an entry from prices that rose at
\* every step.
C16_Witness ==
    /\ fn = "calculateRSI"
    /\ Len(args.candles) >= args.period + 1
    /\ Len(output) >= 2
    /\ NoLossAt(2)
    /\ \A i \in 1..(Len(args.candles) - 1) :
           args.candles[i + 1].close > args.candles[i].close

\* A fraction lies in [0, 100].
InPercentRange(q) ==
    \/ q.d > 0 /\ 0 <= q.n /\ q.n <= 100 * q.d
    \/ q.d < 0 /\ 0 >= q.n /\ q.n >= 100 * q.d

\* C17: every value returned by calculateRSI lies in [0, 100], for every
\* price sequence and every period >= 1.
C17_RsiInRange ==
    fn = "calculateRSI" =>
        \A k \in 1..Len(output) : InPercentRange(output[k])

\* C17's case: calculateRSI has left its warm-up on prices that both rose
\* and fell, and its last entry lies strictly between 0 and 100.
C17_Witness ==
    /\ fn = "calculateRSI"
    /\ Len(args.candles) >= args.period + 1
    /\ Len(output) >= 2
    /\ ~NoLossAt(Len(output))
    /\ output[Len(output)].n > 0
    /\ output[Len(output)].n < 100 * output[Len(output)].d

----------------------------------------------------------------------------
(* Claims about the two calculateVWAP functions, under IndicatorSpec.      *)

VwapFunctions == {"calculateVWAP", "calculateVWAP_Monday"}

\* high + low + close of candle i, three times its typical price.
TypicalTimesThree(cs, i) == cs[i].high + cs[i].low + cs[i].close

\* The volume the candles up to and including candle i carry.
RECURSIVE VolumeUpTo(_, _)
VolumeUpTo(cs, i) == IF i = 0 THEN 0 ELSE VolumeUpTo(cs, i - 1) + cs[i].volume

\* C18: at every index where the cumulative volume up to and including
\* that candle is 0, calculateVWAP returns that candle's typical price
\* (high + low + close) / 3, and never divides by zero.
C18_ZeroVolumeGivesTypicalPrice ==
    fn \in VwapFunctions =>
        \A i \in 1..Len(output) :
            VolumeUpTo(args.candles, i) = 0 =>
                /\ output[i].d # 0
                /\ FracEQ(output[i], Frac(TypicalTimesThree(args.candles, i), 3))

\* C18's case: calculateVWAP of analyze_monday_entries.js has been given
\* two candles without volume whose typical prices differ.
C18_Witness ==
    /\ fn = "calculateVWAP_Monday"
    /\ Len(args.candles) = 2
    /\ VolumeUpTo(args.candles, 2) = 0
    /\ args.candles[1].close # args.candles[2].close

\* The sum of high + low + close over the candles up to candle i.
RECURSIVE TypicalSumUpTo(_, _)
TypicalSumUpTo(cs, i) ==
    IF i = 0 THEN 0 ELSE TypicalSumUpTo(cs, i - 1) + TypicalTimesThree(cs, i)

\* Every entry of the result is the simple average of the typical prices
\* of the candles up to it.
RunningAverageOfTypicalPrices ==
    \A i \in 1..Len(output) :
        FracEQ(output[i], Frac(TypicalSumUpTo(args.candles, i), 3 * i))

SameVolume ==
    \A i \in 1..Len(args.candles) :
        args.candles[i].volume = args.candles[1].volume

\* C19 as stated: for one or more candles that all carry the same volume,
\* the VWAP at each index i equals the simple average of the typical prices
\* of candles 0..i.
C19_EqualVolumeGivesAverage ==
    (fn \in VwapFunctions /\ Len(args.candles) >= 1 /\ SameVolume) =>
        RunningAverageOfTypicalPrices

\* C19, amended: for one or more candles that all carry the same volume,
\* and that volume is not 0, the VWAP at each index i equals the simple
\* average of the typical prices of candles 0..i.
C19_EqualPositiveVolumeGivesAverage ==
    (/\ fn \in VwapFunctions
     /\ Len(args.candles) >= 1
     /\ SameVolume
     /\ args.candles[1].volume > 0) =>
        RunningAverageOfTypicalPrices

\* C19's case: calculateVWAP of the Friday script has been given three
\* candles of the same non-zero volume whose typical prices differ.
C19_Witness ==
    /\ fn = "calculateVWAP"
    /\ Len(args.candles) = 3
    /\ SameVolume
    /\ args.candles[1].volume > 0
    /\ args.candles[1].close # args.candles[2].close
    /\ args.candles[2].close # args.candles[3].close

----------------------------------------------------------------------------
(* Claims about the two calculateEMA functions, under IndicatorSpec.       *)

\* Entry i of the series calculateEMA of analyze_monday_entries.js returned
\* is the number q.
EmaEntryIs(i, q) == output[i] # <<>> /\ FracEQ(output[i][1], q)

\* ema[i] = prices[i] * k + ema[i - 1] * (1 - k) with k = 2 / (period + 1),
\* for i counted from 1: (period + 1) * ema[i] is
\* 2 * prices[i] + (period - 1) * ema[i - 1].
EmaRecurrenceAt(prices, period, i) ==
    /\ output[i] # <<>>
    /\ output[i - 1] # <<>>
    /\ LET this     == output[i][1]
           previous == output[i - 1][1]
       IN  (period + 1) * this.n * previous.d
               = this.d * (2 * prices[i] * previous.d + (period - 1) * previous.n)

ConstantSeries(prices) == \A i \in 1..Len(prices) : prices[i] = prices[1]

\* C20: calculateEMA seeds with the first price (ema[0] = prices[0]) and
\* applies ema[i] = prices[i] * k + ema[i - 1] * (1 - k) with
\* k = 2 / (period + 1); consequently for a constant input series of value
\* v every EMA entry equals v.  For the function of the Friday script,
\* whose numbers come from the library, the formula asks only what the
\* claim implies of every entry: that it is a number.
C20_EmaSeedAndRecurrence ==
    LET prices == Closes(args.candles)
    IN  /\ (fn = "calculateEMA" /\ Len(prices) >= 1) =>
               /\ EmaEntryIs(1, Frac(prices[1], 1))
               /\ \A i \in 2..Len(prices) :
                      EmaRecurrenceAt(prices, args.period, i)
               /\ ConstantSeries(prices) =>
                      \A i \in 1..Len(prices) :
                          EmaEntryIs(i, Frac(prices[1], 1))
        /\ (fn = "calculateEMA_Friday" /\ Len(prices) >= 1) =>
               \A i \in 1..Len(output) : output[i] # <<>>

\* C20's case: calculateEMA of the Friday script has been given a constant
\* series and a period above 1.
C20_Witness ==
    /\ fn = "calculateEMA_Friday"
    /\ args.period >= 2
    /\ Len(args.candles) >= 2
    /\ ConstantSeries(Closes(args.candles))

----------------------------------------------------------------------------
(* Claims about the end of the Friday pipeline, under Spec.                *)

\* C21: when there are too few complete days to train (zero complete days
\* included) or no signal is emitted, the Friday pipeline reports the
\* condition and finishes normally; it never reaches a thrown-fault state.
C21_NeverCrashes == pc # "crashed"

\* C21's case: the loop over the Fridays is over, no day was complete and
\* the pipeline has gone on to build its data set.
C21_Witness ==
    /\ dayIdx > numFridays
    /\ Len(fridayData) = 0
    /\ pc # "analyze"

----------------------------------------------------------------------------
(* Claims about the normalisation of the predictions, under TrainSpec.     *)

\* C22: every call to predict normalises its input with exactly the
\* per-feature mean and standard deviation that trainNeuralNetwork captured
\* from the training set; predict never recomputes or modifies these
\* parameters, so they are unchanged across any number of predictions.
C22_PredictUsesTrainingMoments ==
    fn \in {"trainNeuralNetwork", "predict"} =>
        /\ output.mean = TrainingMean(args)
        /\ output.std = TrainingStd(args)
        /\ \A i \in 1..Len(output.normalized) :
               output.normalized[i]
                   = Normalize(args[i], TrainingMean(args), TrainingStd(args))

\* C22's case: three rows that are not all alike have been predicted, one
\* after the other, after one training.
C22_Witness ==
    /\ fn = "predict"
    /\ Len(output.normalized) = 3
    /\ args[1] # args[2]
    /\ args[2] # args[3]

----------------------------------------------------------------------------
(* Claims about malformed candle records, under DaySpec.                   *)

\* The timestamps do not strictly increase in the supplied order.
OutOfOrder(cs) ==
    \E i \in 1..(Len(cs) - 1) : cs[i + 1].timestamp <= cs[i].timestamp

HasNegativePrice(cs) ==
    \E i \in 1..Len(cs) :
        cs[i].open < 0 \/ cs[i].high < 0 \/ cs[i].low < 0 \/ cs[i].close < 0

\* C23: a day whose candle records are malformed (timestamps not strictly
\* increasing in the supplied order, or a negative price) is rejected and
\* produces no analysis result.
C23_MalformedDayRejected ==
    (fn = "analyzeFriday" /\ (OutOfOrder(args) \/ HasNegativePrice(args))) =>
        output = <<>>

\* C23's case: analyzeFriday has been given a day with a morning and an
\* afternoon candle, the afternoon candle supplied first.
C23_Witness ==
    /\ fn = "analyzeFriday"
    /\ Len(args) = 2
    /\ OutOfOrder(args)
    /\ IsAfternoon(args[1])
    /\ IsMorning(args[2])

----------------------------------------------------------------------------
(* Claims about uploadToMongoDB, under UploadSpec.                         *)

OneDocumentPerKey(collection) ==
    \A i, j \in 1..Len(collection) :
        MatchesFilter(collection[i], collection[j]) => i = j

\* C24: uploadToMongoDB is an idempotent upsert keyed on (timestamp,
\* interval): after any sequence of uploads the collection holds at most
\* one document per (timestamp, interval) pair, and uploading the same
\* candle batch a second time leaves the collection unchanged.
C24_IdempotentUpsert ==
    fn = "uploadToMongoDB" =>
        /\ \A k \in 1..Len(output) : OneDocumentPerKey(output[k].collection)
        /\ \A k \in 2..Len(output) :
               output[k].data = output[k - 1].data =>
                   output[k].collection = output[k - 1].collection

\* C24's case: a batch of two candles has been uploaded twice in a row into
\* a collection that held another close for one of its slots.
C24_Witness ==
    /\ fn = "uploadToMongoDB"
    /\ Len(output) = 3
    /\ Len(output[2].data) = 2
    /\ output[3].data = output[2].data
    /\ output[1].collection # <<>>
    /\ output[2].collection # output[1].collection
    /\ Len(output[2].collection) = 2

----------------------------------------------------------------------------
(* Claims about downloadDateRange, under DownloadSpec.                     *)

ChunksComplete == fn = "downloadDateRange" /\ pc \in {"for", "done"}

\* The chunks are consecutive, contiguous and non-overlapping, from the
\* start of the range to its end; none when the range is empty.
ChunksCoverRange ==
    LET chunks == output.chunks
    IN  IF args.start >= args.end
        THEN chunks = <<>>
        ELSE /\ Len(chunks) >= 1
             /\ chunks[1].start = args.start
             /\ chunks[Len(chunks)].end = args.end
             /\ \A k \in 1..Len(chunks) : chunks[k].start < chunks[k].end
             /\ \A k \in 2..Len(chunks) : chunks[k].start = chunks[k - 1].end

\* The date one calendar month after `date`: the same day of the next
\* month, or the last day of that month when it has no such day.
OneCalendarMonthAfter(date) ==
    LET year  == GetFullYear(date) + ((GetMonth(date) + 1) \div 12)
        month == (GetMonth(date) + 1) % 12
    IN  MakeDate(year, month, Min2(GetDate(date), DaysInMonth(year, month)))

RequestPositions ==
    {p \in 1..Len(output.events) : output.events[p].event = "download"}

\* C26: in downloadDateRange, between any two consecutive chunk download
\* requests there is a wait of at least one second, on every execution
\* path, the path where the earlier chunk's download or upload failed
\* included.
C26_WaitBetweenRequests ==
    \A p, q \in RequestPositions :
        p < q =>
            \E w \in (p + 1)..(q - 1) :
                /\ output.events[w].event = "wait"
                /\ output.events[w].ms >= 1000

\* C26's case: the download of a chunk that is not the last has failed and
\* the next chunk has been requested.
C26_Witness ==
    /\ fn = "downloadDateRange"
    /\ Len(output.chunks) >= 2
    /\ output.i >= 2
    /\ output.uploaded = <<>>
    /\ output.totalCandles = 0
    /\ Len(output.events) = output.i

\* The positions in the list of events of the requests for `unit`, a chunk
\* of downloadDateRange.
RequestsFor(unit) ==
    {p \in RequestPositions : output.events[p].chunk = unit}

\* The requests made so far are those of the first `count` chunks, one
\* each, in order.
AttemptedOnceInOrder(count) ==
    /\ Cardinality(RequestPositions) = count
    /\ \A unit \in 1..count : Cardinality(RequestsFor(unit)) = 1
    /\ \A p, q \in RequestPositions :
           p < q => output.events[p].chunk < output.events[q].chunk

\* The candles of the chunks whose upload completed.
RECURSIVE CandlesUploaded(_)
CandlesUploaded(uploads) ==
    IF uploads = <<>> THEN 0
    ELSE CandlesUploaded(SubSeq(uploads, 1, Len(uploads) - 1))
         + Len(uploads[Len(uploads)].data)

InCollection(doc) ==
    \E k \in 1..Len(output.collection) : output.collection[k] = doc

\* The months the year script has requested are the first `count` months
\* of the year, one request each, in order.
MonthsAttemptedInOrder(count) ==
    /\ Cardinality(RequestPositions) = count
    /\ \A p \in RequestPositions :
           output.events[p].from[2] = Cardinality({q \in RequestPositions : q <= p})

\* C27: a failure while downloading or uploading one chunk (or one month in
\* the year script) does not stop the run: every chunk is attempted exactly
\* once in order, chunks already uploaded stay uploaded, and the reported
\* total counts only the candles of chunks whose upload completed.
C27_FailureDoesNotStopRun ==
    /\ fn = "downloadDateRange" =>
           /\ AttemptedOnceInOrder(output.i)
           /\ pc = "done" => output.i = Len(output.chunks)
           /\ \A u \in 1..Len(output.uploaded) :
                  \A k \in 1..Len(output.uploaded[u].data) :
                      InCollection(output.uploaded[u].data[k])
           /\ output.totalCandles = CandlesUploaded(output.uploaded)
    /\ fn = "download_year_data.sh" =>
           /\ MonthsAttemptedInOrder(output.month)
           /\ pc = "done" => output.month = 12
           /\ \A k \in 1..Len(output.saved) : output.saved[k] <= output.month

\* C27's case: downloadDateRange has finished a run of three chunks or
\* more in which the first chunk was uploaded, the upload of a later chunk
\* failed part-way and the chunk after that was uploaded.
C27_Witness ==
    /\ fn = "downloadDateRange"
    /\ pc = "done"
    /\ Len(output.chunks) >= 3
    /\ Len(output.uploaded) = 2
    /\ output.uploaded[1].chunk = 1
    /\ output.uploaded[2].chunk = 3
    /\ Len(output.collection) > CandlesUploaded(output.uploaded)

----------------------------------------------------------------------------
(* Further claims about generateTradingSignals, under SignalSpec.          *)

IsReversalSignal(s) == s.reasoning[1] = "ML predicts reversal"

\* C28: for every emitted signal the risk |entry - stopLoss| is strictly
\* positive and riskReward = |target - entry| / |entry - stopLoss| is a
\* defined number, 3 for trend signals and 2.5 for reversal signals; no
\* ratio is computed with a zero denominator, reversal signals whose
\* morning close equals the morning low (LONG) or high (SHORT) included.
C28_RiskRewardDefined ==
    \A k \in 1..Len(signals) :
        /\ signals[k].riskReward # <<>>
        /\ signals[k].riskReward
               = (IF IsReversalSignal(signals[k]) THEN <<250>> ELSE <<300>>)

\* C28's case: a reversal LONG signal has been emitted for a morning that
\* closed at its low.
C28_Witness ==
    \E k \in 1..Len(signals) :
        /\ IsReversalSignal(signals[k])
        /\ signals[k].signal = "LONG"
        /\ signals[k].entry = signals[k].stopLoss
        /\ fridayData[DayOf(signals[k])].morning.close
               = fridayData[DayOf(signals[k])].morning.low

\* The rules whose condition holds for a day and its prediction, each
\* taken on its own.
MatchingRules(day, p) ==
    {rule \in {<<"trend", "LONG">>, <<"trend", "SHORT">>,
               <<"reversal", "LONG">>, <<"reversal", "SHORT">>} :
        \/ /\ rule = <<"trend", "LONG">>
           /\ p > 1000 /\ MorningUp(day) /\ day.morning.priceVsVWAP > 0
        \/ /\ rule = <<"trend", "SHORT">>
           /\ p < 0 - 1000 /\ MorningDown(day) /\ day.morning.priceVsVWAP < 0
        \/ /\ rule = <<"reversal", "LONG">>
           /\ p > 1500 /\ MorningDrop(day) /\ RuleRsi(day) < 40
        \/ /\ rule = <<"reversal", "SHORT">>
           /\ p < 0 - 1500 /\ MorningRally(day) /\ RuleRsi(day) > 60}

\* C29: the four signal rules are pairwise mutually exclusive: for no
\* combination of prediction, morning move, VWAP position and RSI do two
\* different rules match, so the emitted signal (or its absence) is the
\* same under any evaluation order of the rules: a day's records show
\* exactly the rules that match it; and every LONG signal has a prediction
\* above 0.1 while every SHORT signal has one below -0.1.
C29_RulesMutuallyExclusive ==
    /\ \A d \in 1..Len(fridayData) :
           d <= Len(mlPredictions) =>
               Cardinality(MatchingRules(fridayData[d], mlPredictions[d])) <= 1
    /\ pc = "report" =>
           \A d \in 1..Len(fridayData) :
               {EmittedRule(signals[i]) : i \in SignalsOf(fridayData[d].date)}
                   = MatchingRules(fridayData[d], mlPredictions[d])
    /\ \A k \in 1..Len(signals) :
           /\ signals[k].signal = "LONG" => signals[k].mlPrediction > 1000
           /\ signals[k].signal = "SHORT" => signals[k].mlPrediction < 0 - 1000

\* C29's case: a reversal LONG signal has been emitted for the first day
\* and a trend SHORT signal for the second.
C29_Witness ==
    /\ pc = "report"
    /\ Len(signals) = 2
    /\ EmittedRule(signals[1]) = <<"reversal", "LONG">>
    /\ EmittedRule(signals[2]) = <<"trend", "SHORT">>

----------------------------------------------------------------------------
(* Claims about analyzeMondayEntries, under EntrySpec.                     *)

\* C30: in analyzeMondayEntries, for every analysed Monday the short-side
\* risk (firstHourHigh - bestShortEntry) is 0 and therefore shortRR is 0,
\* whereas longRisk >= 0, longReward >= 0 and longRR is 0 whenever longRisk
\* is 0 and longReward / longRisk otherwise.
C30_ShortRiskIsZero ==
    (fn = "analyzeMondayEntries" /\ output # <<>>) =>
        LET entry == output[1]
        IN  /\ entry.shortRisk = 0
            /\ FracEQ(entry.shortRR, Frac(0, 1))
            /\ entry.shortRR.d # 0
            /\ entry.longRisk >= 0
            /\ entry.longReward >= 0
            /\ entry.longRR.d # 0
            /\ entry.longRisk = 0 => FracEQ(entry.longRR, Frac(0, 1))
            /\ entry.longRisk # 0 =>
                   FracEQ(entry.longRR, Frac(entry.longReward, entry.longRisk))

\* C30's case: a bullish Monday whose first hour had a pullback above its
\* low has been analysed, so that the long risk is not 0, and its first
\* hour's highs differ.
C30_Witness ==
    /\ fn = "analyzeMondayEntries"
    /\ output # <<>>
    /\ output[1].bullishDay
    /\ output[1].longRisk > 0
    /\ output[1].shortReward > 0
    /\ args[1].high # args[2].high

============================================================================
